---- MODULE Spec2Model ----
(***************************************************************************)
(* A model of package gpio: the Vector, Flag and Bank containers and the   *)
(* SetHold write protocol they share.  One container is constructed per    *)
(* behaviour (Init picks which); NumCallers goroutines call its methods    *)
(* concurrently.  Every SetHold() call creates a channel and starts one    *)
(* commit goroutine for it.                                                *)
(*                                                                         *)
(* uint64 bit masks are modelled as the set of their set bit positions     *)
(* (a subset of 0..63): | is \cup, & is \cap, ^ is symmetric difference.   *)
(***************************************************************************)
EXTENDS Integers, FiniteSets, Sequences, TLC

\* ---------------------------------------------------------------- bounds
\* Number of goroutines that call the container's methods concurrently.
NumCallers == 2
\* Number of channels (and commit goroutines) that may be alive at once.
MaxChans == 2
\* NewVector(count): the length of the vector under test.
VecLen == 2
\* Largest value written to a vector element.
MaxVal == 1
\* Number of GPIO lines the chip reports (Bank.lines).
BankLines == 1
\* Number of GPIO lines of the chip the one-caller tests use.
SeqLines == 2
\* Number of GPIO lines of the chip with an output wired to an input.
LoopLines == 3
\* Number of GPIO lines of the chip with more lines than a mask word has bits.
WideLines == 65

Callers == 1..NumCallers
Chans == 1..MaxChans
Kinds == {"Vector", "NilVector", "Flag", "Bank"}
\* "no channel": the nil value of the setCh fields.
Nil == 0
\* "no return value yet".
None == [op |-> "none"]

\* Width of the uint64 words holding masks and values.
WordBits == 64

VARIABLES
    kind,    \* which container this behaviour exercises
    test,    \* how: [callers, ops, indices, faults, free, wire, history], fixed by Init
    vec,     \* the Vector: [val, setCh, mu]
    flag,    \* the Flag: [value, mask, setCh, tracer, mu]
    bank,    \* the Bank: its fields
    hw,      \* the GPIO chip behind the Bank
    trace,   \* the Sample(mask, value) calls made by the step just taken
    io,      \* the ioctl requests the step just taken made to the chip
    chs,     \* chs[c]: the channel made by a SetHold call
    gor,     \* gor[c]: where the commit goroutine of channel c stands
    pc,      \* pc[p]: where caller p stands
    call,    \* call[p]: the method call caller p is in
    ret,     \* what the step just taken returned to its caller, if it returned
    ghost,   \* history kept for stating properties, never read by an action
    poll     \* the Bank's poller and its context: [at, cancelled, when]

vars == <<kind, test, vec, flag, bank, hw, trace, io, chs, gor, pc, call, ret, ghost, poll>>

\* "go b.pollInput(ctx, poll)" of OpenBank: the poller waits in its select, the
\* context is not cancelled, and no tick has assigned b.insWhen.
Polling == [at |-> "select", cancelled |-> FALSE, when |-> FALSE]

\* ------------------------------------------------------- channels, callers
\* A channel id is free when no SetHold call's channel and no goroutine uses it.
FreeChan(c) == chs[c].st = "unused" /\ gor[c].pc = "none"

\* ch := make(chan ...): the id the new channel gets.
NewChan == CHOOSE c \in Chans : FreeChan(c)

NoGor == [pc |-> "none", index |-> 0]
NoChan == [st |-> "unused", ioErr |-> FALSE]
NoCall == [op |-> "none", idx |-> 0, val |-> 0, ch |-> Nil]

\* The caller blocked in "ch <- value" on channel c, if any.
Sender(c) == {p \in Callers : pc[p] = "send" /\ call[p].ch = c}

\* The handle of caller p is open: SetHold returned it and close(ch) has not run.
HandleOpen(p) == pc[p] \in {"held", "send", "sent"}

\* The handle's value was received by the commit goroutine, close(ch) has not run.
HandleWritten(p) == pc[p] = "sent"

\* The indices and values callers pass to the container's methods.
Indices == test.indices

Values == IF kind \in {"Vector", "NilVector"} THEN 0..MaxVal ELSE BOOLEAN

\* The zero value of an element: int64 0, or false.
Zero == IF kind \in {"Vector", "NilVector"} THEN 0 ELSE FALSE

\* Caller p's call returns r.
Return(p, r) ==
    /\ pc' = [pc EXCEPT ![p] = "idle"]
    /\ call' = [call EXCEPT ![p] = NoCall]
    /\ ret' = r

\* Caller p's call of method op passed its index check and goes on to the lock.
Enter(p, op, i, v, at) ==
    /\ pc' = [pc EXCEPT ![p] = at]
    /\ call' = [call EXCEPT ![p] = [op |-> op, idx |-> i, val |-> v, ch |-> Nil]]
    /\ ret' = None

\* What Set() and SetHold() do once SetHold() has its channel and goroutine:
\* SetHold returns (ch, nil); Set goes on to "ch <- value".
Returned(p, c) ==
    /\ call' = [call EXCEPT ![p].ch = c]
    /\ pc' = [pc EXCEPT ![p] = "held"]
    /\ ret' = IF call[p].op = "SetHold"
              THEN [op |-> "SetHold", p |-> p, idx |-> call[p].idx, err |-> FALSE]
              ELSE None

\* "ch <- value": the caller blocks until the commit goroutine receives.  The
\* value (Set's argument, or a SetHold caller's choice) is first used here.
HandleSend(p) ==
    /\ pc[p] = "held"
    /\ \E v \in Values : call' = [call EXCEPT ![p].val = v]
    /\ pc' = [pc EXCEPT ![p] = "send"]
    /\ ret' = None
    /\ io' = <<>>
    /\ trace' = <<>>
    /\ UNCHANGED <<kind, test, poll, vec, flag, bank, hw, chs, gor, ghost>>

\* close(ch): in Set after the send, by a SetHold caller with or without a write.
\* Set then returns nil.
HandleClose(p) ==
    /\ \/ pc[p] = "sent"
       \/ pc[p] = "held" /\ call[p].op = "SetHold"
    /\ LET c == call[p].ch IN
          /\ chs' = [chs EXCEPT ![c] =
                IF gor[c].pc = "done" THEN NoChan ELSE [@ EXCEPT !.st = "closed"]]
          /\ gor' = [gor EXCEPT ![c] = IF @.pc = "done" THEN NoGor ELSE @]
          /\ ghost' = [ghost EXCEPT !.dirty = {d \in @ : d[2] # c}]
    /\ Return(p, IF call[p].op = "Set"
                 THEN [op |-> "Set", p |-> p, idx |-> call[p].idx, err |-> FALSE,
                       ioErr |-> chs[call[p].ch].ioErr,
                       open |-> {q \in Callers \ {p} : HandleOpen(q)}]
                 ELSE None)
    /\ io' = <<>>
    /\ trace' = <<>>
    /\ UNCHANGED <<kind, test, poll, vec, flag, bank, hw>>

\* Mutant: the goroutine returns and leaves the hold slot bound.
ReleasedBound(rec) == [rec EXCEPT !.mu = FALSE]

\* "setCh = nil; return" with the deferred Unlock, on the container's record.
Released(rec) == [rec EXCEPT !.setCh = Nil, !.mu = FALSE]

\* The commit goroutine of channel c returns.
GorEnds(c) ==
    /\ gor' = [gor EXCEPT ![c] = IF chs[c].st = "closed" THEN NoGor ELSE [@ EXCEPT !.pc = "done"]]
    /\ chs' = [chs EXCEPT ![c] = IF @.st = "closed" THEN NoChan ELSE @]

\* ----------------------------------------------------------------- ghost
\* The value most recently received from a handle for index i, if any.
Last(i) ==
    IF \E d \in ghost.lastW : d[1] = i
    THEN [has |-> TRUE, val |-> (CHOOSE d \in ghost.lastW : d[1] = i)[2]]
    ELSE [has |-> FALSE, val |-> Zero]

\* Index i holds a value received from a handle that is still open.
Dirty(i) == \E d \in ghost.dirty : d[1] = i

\* The commit goroutine of channel c received value v for index i
\* (changed says whether it wrote the container's state).  A test that states
\* nothing about past writes keeps no history.
Received(c, i, v, changed) ==
    IF test.history
    THEN [ghost EXCEPT !.lastW = {d \in @ : d[1] # i} \cup {<<i, v>>},
                       !.dirty = IF changed THEN @ \cup {<<i, c>>} ELSE @]
    ELSE ghost

\* What a Get of index i returns to caller p, with the ghost state it saw.
GetRet(p, i, v, err) ==
    [op |-> "Get", p |-> p, idx |-> i, val |-> v, err |-> err,
     last |-> Last(i), dirty |-> Dirty(i),
     open |-> {q \in Callers : HandleOpen(q)},
     written |-> {q \in Callers : HandleWritten(q)}]

\* ---------------------------------------------------------------- Vector
\* valid(index): TRUE when it returns an error.
VectorValid(index) ==
    \/ kind = "NilVector"
    \/ index < 0
    \/ index >= Len(vec.val)

\* Get is called: valid(index) returns the error, or Get goes on to v.mu.Lock().
VectorGetCall(p) ==
    /\ p \in test.callers
    /\ "Get" \in test.ops
    /\ kind \in {"Vector", "NilVector"}
    /\ pc[p] = "idle"
    /\ \E i \in Indices :
          IF VectorValid(i)
          THEN Return(p, GetRet(p, i, 0, TRUE))
          ELSE Enter(p, "Get", i, 0, "get")
    /\ io' = <<>>
    /\ trace' = <<>>
    /\ UNCHANGED <<kind, test, poll, vec, flag, bank, hw, chs, gor, ghost>>

\* Get: lock, read val[index], unlock.
VectorGet(p) ==
    /\ kind = "Vector"
    /\ pc[p] = "get"
    /\ ~vec.mu
    /\ Return(p, GetRet(p, call[p].idx, vec.val[call[p].idx + 1], FALSE))
    /\ io' = <<>>
    /\ trace' = <<>>
    /\ UNCHANGED <<kind, test, poll, vec, flag, bank, hw, chs, gor, ghost>>

\* What Set makes of SetHold's error: "if err != nil { return nil }".
VectorSetErr(err) == FALSE

\* SetHold is called, by Set or directly: valid(index) returns the error (and
\* Set returns what it makes of it), or SetHold goes on to v.mu.Lock().
VectorSetHoldCall(p) ==
    /\ p \in test.callers
    /\ kind \in {"Vector", "NilVector"}
    /\ pc[p] = "idle"
    /\ \E op \in {"Set", "SetHold"} \cap test.ops, i \in Indices :
          IF VectorValid(i)
          THEN Return(p, IF op = "Set"
                         THEN [op |-> "Set", p |-> p, idx |-> i,
                               err |-> VectorSetErr(TRUE), ioErr |-> FALSE, open |-> {}]
                         ELSE [op |-> "SetHold", p |-> p, idx |-> i, err |-> TRUE])
          ELSE Enter(p, op, i, 0, "sethold")
    /\ io' = <<>>
    /\ trace' = <<>>
    /\ UNCHANGED <<kind, test, poll, vec, flag, bank, hw, chs, gor, ghost>>

\* Mutant: SetHold binds the slot without waiting for it to be free.
VectorSlotAny == TRUE

\* The test of SetHold's loop: the hold slot is free.
VectorSlotFree == vec.setCh = Nil

\* SetHold's loop "lock; if v.setCh == nil {bind; break}; unlock; yield" up to
\* the iteration that finds the slot free, then "go func()": the commit
\* goroutine inherits the locked mutex and SetHold returns the channel.
VectorSetHold(p) ==
    /\ kind = "Vector"
    /\ pc[p] = "sethold"
    /\ ~vec.mu
    /\ VectorSlotFree
    /\ \E c \in Chans : FreeChan(c)
    /\ LET c == NewChan IN
          /\ vec' = [vec EXCEPT !.setCh = c, !.mu = TRUE]
          /\ chs' = [chs EXCEPT ![c] = [st |-> "open", ioErr |-> FALSE]]
          /\ gor' = [gor EXCEPT ![c] = [pc |-> "select", index |-> call[p].idx]]
          /\ Returned(p, c)
    /\ io' = <<>>
    /\ trace' = <<>>
    /\ UNCHANGED <<kind, test, poll, flag, bank, hw, ghost>>

\* Mutant: the value is stored in the first element whatever the index.
VectorStoreFirst(val, index, num) == [val EXCEPT ![1] = num]

\* v.val[index] = num
VectorStore(val, index, num) == [val EXCEPT ![index + 1] = num]

\* Mutant: the goroutine does not wait for the close after a write.
VectorDrainedAtOnce(c) == TRUE

\* "for ok { _, ok = <-ch }" ends: the receive reports the channel closed.
VectorDrained(c) == chs[c].st = "closed"

\* The commit goroutine's select, entered locked: a value is received and
\* stored; a close ends the hold; otherwise (default) unlock and yield.
VectorCommit(c) ==
    /\ kind = "Vector"
    /\ gor[c].pc = "select"
    /\ LET i == gor[c].index IN
       IF Sender(c) # {}
       THEN \E p \in Sender(c) :
               /\ vec' = [vec EXCEPT !.val = VectorStore(@, i, call[p].val)]
               /\ pc' = [pc EXCEPT ![p] = "sent"]
               /\ gor' = [gor EXCEPT ![c].pc = "drain"]
               /\ ghost' = Received(c, i, call[p].val, TRUE)
               /\ UNCHANGED chs
       ELSE IF chs[c].st = "closed"
       THEN /\ vec' = Released(vec)
            /\ GorEnds(c)
            /\ UNCHANGED <<pc, ghost>>
       ELSE /\ vec' = [vec EXCEPT !.mu = FALSE]
            /\ gor' = [gor EXCEPT ![c].pc = "yield"]
            /\ UNCHANGED <<pc, chs, ghost>>
    /\ ret' = None
    /\ io' = <<>>
    /\ trace' = <<>>
    /\ UNCHANGED <<kind, test, poll, flag, bank, hw, call>>

\* v.mu.Lock() after runtime.Gosched() in the commit goroutine.
VectorCommitLock(c) ==
    /\ kind = "Vector"
    /\ gor[c].pc = "yield"
    /\ ~vec.mu
    /\ vec' = [vec EXCEPT !.mu = TRUE]
    /\ gor' = [gor EXCEPT ![c].pc = "select"]
    /\ ret' = None
    /\ io' = <<>>
    /\ trace' = <<>>
    /\ UNCHANGED <<kind, test, poll, flag, bank, hw, chs, pc, call, ghost>>

\* "for ok { _, ok = <-ch }", then v.setCh = nil and the deferred Unlock.
VectorCommitDrain(c) ==
    /\ kind = "Vector"
    /\ gor[c].pc = "drain"
    /\ VectorDrained(c)
    /\ vec' = [vec EXCEPT !.setCh = Nil, !.mu = FALSE]
    /\ GorEnds(c)
    /\ ret' = None
    /\ io' = <<>>
    /\ trace' = <<>>
    /\ UNCHANGED <<kind, test, poll, flag, bank, hw, pc, call, ghost>>

\* ------------------------------------------------------------------ Flag
\* uint64(1) << index, as the set of its bits: a shift by 64 or more gives 0.
Bit(index) == IF index >= 0 /\ index < WordBits THEN {index} ELSE {}

\* a ^ b on bit sets.
Xor(a, b) == (a \ b) \cup (b \ a)

\* tracer.Sample(mask, value) behind "if tracer != nil".
Sample(tracer, mask, value) ==
    IF tracer THEN <<[mask |-> mask, value |-> value]>> ELSE <<>>

\* valid(index): TRUE when it returns an error.
FlagValid(index) == index < 0 \/ index >= 63

\* Get is called: valid(index) returns the error, or Get goes on to f.mu.Lock().
FlagGetCall(p) ==
    /\ p \in test.callers
    /\ "Get" \in test.ops
    /\ kind = "Flag"
    /\ pc[p] = "idle"
    /\ \E i \in Indices :
          IF FlagValid(i)
          THEN Return(p, GetRet(p, i, FALSE, TRUE))
          ELSE Enter(p, "Get", i, FALSE, "get")
    /\ io' = <<>>
    /\ trace' = <<>>
    /\ UNCHANGED <<kind, test, poll, vec, flag, bank, hw, chs, gor, ghost>>

\* Mutant: every reference is taken for the first.
FirstReferenceAlways(mask, bit) == TRUE

\* "if f.mask&bit == 0".
FirstReference(mask, bit) == mask \cap bit = {}

\* Mutant: the mask keeps the referenced bit only.
RevealedAlone(mask, bit) == bit

\* Mutant: a reference leaves the mask as it is.
RevealedNever(mask, bit) == mask

\* "f.mask |= bit".
Revealed(mask, bit) == mask \cup bit

\* Get: lock; a first reference to the bit adds it to the mask and samples;
\* return the bit; unlock.
FlagGet(p) ==
    /\ kind = "Flag"
    /\ pc[p] = "get"
    /\ ~flag.mu
    /\ LET bit == Bit(call[p].idx) IN
          /\ flag' = [flag EXCEPT !.mask = IF FirstReference(@, bit) THEN Revealed(@, bit) ELSE @]
          /\ io' = <<>>
          /\ trace' = IF FirstReference(flag.mask, bit)
                      THEN Sample(flag.tracer, Revealed(flag.mask, bit), flag.value)
                      ELSE <<>>
          /\ Return(p, GetRet(p, call[p].idx, flag.value \cap bit # {}, FALSE))
    /\ UNCHANGED <<kind, test, poll, vec, bank, hw, chs, gor, ghost>>

\* SetHold is called, by Set or directly: valid(index) returns the error (Set
\* returns it too), or SetHold goes on to f.mu.Lock().
FlagSetHoldCall(p) ==
    /\ p \in test.callers
    /\ kind = "Flag"
    /\ pc[p] = "idle"
    /\ \E op \in {"Set", "SetHold"} \cap test.ops, i \in Indices :
          IF FlagValid(i)
          THEN Return(p, IF op = "Set"
                         THEN [op |-> "Set", p |-> p, idx |-> i, err |-> TRUE, ioErr |-> FALSE,
                               open |-> {}]
                         ELSE [op |-> "SetHold", p |-> p, idx |-> i, err |-> TRUE])
          ELSE Enter(p, op, i, FALSE, "sethold")
    /\ io' = <<>>
    /\ trace' = <<>>
    /\ UNCHANGED <<kind, test, poll, vec, flag, bank, hw, chs, gor, ghost>>

\* The test of SetHold's loop: the hold slot is free.
FlagSlotFree == flag.setCh = Nil

\* SetHold's loop "lock; if f.setCh == nil {bind; break}; unlock; yield" up to
\* the iteration that finds the slot free, then "go func()": the commit
\* goroutine inherits the locked mutex and SetHold returns the channel.
FlagSetHold(p) ==
    /\ kind = "Flag"
    /\ pc[p] = "sethold"
    /\ ~flag.mu
    /\ FlagSlotFree
    /\ \E c \in Chans : FreeChan(c)
    /\ LET c == NewChan IN
          /\ flag' = [flag EXCEPT !.setCh = c, !.mu = TRUE]
          /\ chs' = [chs EXCEPT ![c] = [st |-> "open", ioErr |-> FALSE]]
          /\ gor' = [gor EXCEPT ![c] = [pc |-> "select", index |-> call[p].idx]]
          /\ Returned(p, c)
    /\ io' = <<>>
    /\ trace' = <<>>
    /\ UNCHANGED <<kind, test, poll, vec, bank, hw, ghost>>

\* Mutant: the bit is toggled whether or not it has the value already.
FlagStoreToggled(value, bit, on) == Xor(value, bit)

\* "if on != (old&bit != 0) { f.value ^= bit }"
FlagStore(value, bit, on) == IF on # (value \cap bit # {}) THEN Xor(value, bit) ELSE value

\* Mutant: the goroutine does not wait for the close after a write.
FlagDrainedAtOnce(c) == TRUE

\* "for ok { _, ok = <-ch }" ends: the receive reports the channel closed.
FlagDrained(c) == chs[c].st = "closed"

\* Mutant: a commit that only reveals its bit counts as no change.
FlagChangedValue(old, oldMask, value, mask) == old # value

\* "old != f.value || oldMask != f.mask".
FlagChanged(old, oldMask, value, mask) == old # value \/ oldMask # mask

\* The commit goroutine's select, entered locked: a value is received, the bit
\* revealed and stored, and a change sampled; a close ends the hold; otherwise
\* (default) unlock and yield.
FlagCommit(c) ==
    /\ kind = "Flag"
    /\ gor[c].pc = "select"
    /\ LET bit == Bit(gor[c].index) IN
       IF Sender(c) # {}
       THEN \E p \in Sender(c) :
               LET mask == Revealed(flag.mask, bit)
                   value == FlagStore(flag.value, bit, call[p].val)
               IN /\ flag' = [flag EXCEPT !.mask = mask, !.value = value]
                  /\ io' = <<>>
                  /\ trace' = IF FlagChanged(flag.value, flag.mask, value, mask)
                              THEN Sample(flag.tracer, mask, value)
                              ELSE <<>>
                  /\ pc' = [pc EXCEPT ![p] = "sent"]
                  /\ gor' = [gor EXCEPT ![c].pc = "drain"]
                  /\ ghost' = Received(c, gor[c].index, call[p].val, TRUE)
                  /\ UNCHANGED chs
       ELSE IF chs[c].st = "closed"
       THEN /\ flag' = Released(flag)
            /\ GorEnds(c)
            /\ io' = <<>>
            /\ trace' = <<>>
            /\ UNCHANGED <<pc, ghost>>
       ELSE /\ flag' = [flag EXCEPT !.mu = FALSE]
            /\ gor' = [gor EXCEPT ![c].pc = "yield"]
            /\ io' = <<>>
            /\ trace' = <<>>
            /\ UNCHANGED <<pc, chs, ghost>>
    /\ ret' = None
    /\ UNCHANGED <<kind, test, poll, vec, bank, hw, call>>

\* f.mu.Lock() after runtime.Gosched() in the commit goroutine.
FlagCommitLock(c) ==
    /\ kind = "Flag"
    /\ gor[c].pc = "yield"
    /\ ~flag.mu
    /\ flag' = [flag EXCEPT !.mu = TRUE]
    /\ gor' = [gor EXCEPT ![c].pc = "select"]
    /\ ret' = None
    /\ io' = <<>>
    /\ trace' = <<>>
    /\ UNCHANGED <<kind, test, poll, vec, bank, hw, chs, pc, call, ghost>>

\* "for ok { _, ok = <-ch }", then f.setCh = nil and the deferred Unlock.
FlagCommitDrain(c) ==
    /\ kind = "Flag"
    /\ gor[c].pc = "drain"
    /\ FlagDrained(c)
    /\ flag' = [flag EXCEPT !.setCh = Nil, !.mu = FALSE]
    /\ GorEnds(c)
    /\ ret' = None
    /\ io' = <<>>
    /\ trace' = <<>>
    /\ UNCHANGED <<kind, test, poll, vec, bank, hw, pc, call, ghost>>

\* SetTracer(tracer): lock; set the tracer; a non-nil tracer gets one sample.
FlagSetTracer(p) ==
    /\ p \in test.callers
    /\ "SetTracer" \in test.ops
    /\ kind = "Flag"
    /\ pc[p] = "idle"
    /\ ~flag.mu
    /\ \E tracer \in BOOLEAN :
          /\ flag' = [flag EXCEPT !.tracer = tracer]
          /\ io' = <<>>
          /\ trace' = Sample(tracer, flag.mask, flag.value)
          /\ Return(p, [op |-> "SetTracer", p |-> p])
    /\ UNCHANGED <<kind, test, poll, vec, bank, hw, chs, gor, ghost>>

\* ------------------------------------------------------------------ Bank
\* A nil *os.File, and the file of a line request for the given lines.
NilFile == [open |-> FALSE, lines |-> {}]
LineFile(lines) == [open |-> TRUE, lines |-> lines]

\* The position of line l among the lines of mask, in ascending order: the bit
\* the kernel gives l in the LineValues of a request for unpackMask(mask).
Rank(mask, l) == Cardinality({k \in mask : k < l})

\* The loop of setOutsLocked: the bits of value at the lines of mask, packed in
\* rank order.
Pack(mask, value) == {Rank(mask, l) : l \in mask \cap value}

\* Mutant: the packed bits are taken for line numbers.
UnpackUnranked(mask, bits) == mask \cap bits

\* The loop of refreshInputLocked: packed bits, unpacked to the lines of mask.
Unpack(mask, bits) == {l \in mask : Rank(mask, l) \in bits}

\* Mutant: the mask has one bit whatever the number of lines.
LowMaskOne(n) == IF n = 0 THEN {} ELSE {0}

\* (1 << n) - 1
LowMask(n) == 0..(n - 1)

\* valid(g): TRUE when it returns an error.
BankValid(g) == g < 0 \/ g >= bank.lines

\* The ioctl of setOutsLocked fails: its error is what setOutsLocked returns.
SetOutsErr(failed) == failed

\* The ioctls: a line request (cmdGetLine) for the lines of a mask, a
\* set-values request on a file with packed mask and bits, a get-values request
\* with the bits the kernel answered or its error.
LineRequest(flags, mask) == [req |-> "line", flags |-> flags, lines |-> mask]
SetValues(file, mask, bits) == [req |-> "set", lines |-> file.lines, mask |-> mask, bits |-> bits]
GetValues(file, mask, bits, err) ==
    [req |-> "get", lines |-> file.lines, mask |-> mask, bits |-> bits, err |-> err]

\* setOutsLocked on bank b and chip h: every outcome [bank, hw, trace, io, err].
\* With no output file nothing happens; otherwise the tracer is sampled and the
\* packed cached values are written, which the kernel may refuse.
SetOutsLocked(b, h) ==
    IF ~b.outsF.open
    THEN {[bank |-> b, hw |-> h, trace |-> <<>>, io |-> <<>>, err |-> FALSE]}
    ELSE LET bits == Pack(b.outsMask, b.outs)
             mask == LowMask(Cardinality(b.outsMask))
             set == {l \in b.outsF.lines : Rank(b.outsF.lines, l) \in mask}
             high == {l \in set : Rank(b.outsF.lines, l) \in bits}
             smp == Sample(b.tracer, b.insMask \cup b.outsMask, b.ins \cup b.outs)
             req == <<SetValues(b.outsF, mask, bits)>>
         IN {[bank |-> b, hw |-> [h EXCEPT !.out = (@ \ set) \cup high],
              trace |-> smp, io |-> req, err |-> SetOutsErr(FALSE)]}
            \cup
            {[bank |-> b, hw |-> h, trace |-> smp, io |-> req, err |-> SetOutsErr(TRUE)]
               : x \in {"set"} \cap test.faults}

\* Mutant: the files are left as they are and nothing is requested.
EnableRWSkipped(b, h) ==
    {[bank |-> b, hw |-> h, trace |-> <<>>, io |-> <<>>, err |-> FALSE]}

\* enableRWLocked on bank b and chip h: every outcome [bank, hw, trace, io, err].
\* Both files are closed; the output lines, then the input lines are requested
\* again (either request may fail and ends the call); pollMask is recomputed and
\* the cached outputs written.  Closing the output file releases its lines,
\* which the chip then no longer drives; a line requested as output starts low.
EnableRWLocked(b, h) ==
    LET b1 == [b EXCEPT !.insF = NilFile, !.outsF = NilFile]
        h1 == [h EXCEPT !.out = @ \ b.outsF.lines]
        b2 == [b1 EXCEPT !.outsF = IF b.outsMask # {} THEN LineFile(b.outsMask) ELSE NilFile]
        h2 == [h1 EXCEPT !.out = @ \ b.outsMask]
        b3 == [b2 EXCEPT !.insF = IF b.insMask # {} THEN LineFile(b.insMask) ELSE NilFile,
                         !.pollMask = LowMask(Cardinality(b.insMask))]
        outReq == IF b.outsMask # {} THEN <<LineRequest("output", b.outsMask)>> ELSE <<>>
        inReq == IF b.insMask # {} THEN <<LineRequest("input", b.insMask)>> ELSE <<>>
    IN  {[bank |-> b1, hw |-> h1, trace |-> <<>>, io |-> outReq, err |-> TRUE]
           : x \in {y \in {"request"} \cap test.faults : b.outsMask # {}}}
        \cup {[bank |-> b2, hw |-> h2, trace |-> <<>>, io |-> outReq \o inReq, err |-> TRUE]
                : x \in {y \in {"request"} \cap test.faults : b.insMask # {}}}
        \cup {[o EXCEPT !.io = outReq \o inReq \o @] : o \in SetOutsLocked(b3, h2)}

\* An operation of caller p that ran enableRWLocked or nothing ends: one of the
\* outcomes becomes the state and its error is returned.
BankDone(p, op, outcomes) ==
    \E o \in outcomes :
       /\ bank' = o.bank
       /\ hw' = o.hw
       /\ trace' = o.trace
       /\ io' = o.io
       /\ Return(p, [op |-> op, p |-> p, idx |-> call[p].idx, err |-> o.err,
                     open |-> {q \in Callers : HandleOpen(q)},
                     written |-> {q \in Callers : HandleWritten(q)}])

\* Enable is called: valid(g) returns the error, or Enable goes on to b.mu.Lock().
\* The argument "on" is not used by Enable.
BankEnableCall(p) ==
    /\ p \in test.callers
    /\ "Enable" \in test.ops
    /\ kind = "Bank"
    /\ pc[p] = "idle"
    /\ \E g \in Indices, on \in BOOLEAN :
          IF BankValid(g)
          THEN Return(p, [op |-> "Enable", p |-> p, idx |-> g, err |-> TRUE,
                          open |-> {}, written |-> {}])
          ELSE Enter(p, "Enable", g, FALSE, "enable")
    /\ io' = <<>>
    /\ trace' = <<>>
    /\ UNCHANGED <<kind, test, poll, vec, flag, bank, hw, chs, gor, ghost>>

\* The call of caller p returned r from enableRWLocked or before it: a test
\* of a single caller that keeps history remembers the call when it failed,
\* and else forgets the one before.
Reconfigured(p, r) ==
    IF test.history /\ test.callers = {p} /\ r.err
    THEN [ghost EXCEPT !.failed = [op |-> call[p].op, idx |-> call[p].idx, val |-> call[p].val]]
    ELSE [ghost EXCEPT !.failed = None]

\* Mutant: no line is taken for enabled.
AlreadyEnabledNever(b, bit) == FALSE

\* "m := b.insMask | b.outsMask; if m&bit != 0 { return nil }".
AlreadyEnabled(b, bit) == (b.insMask \cup b.outsMask) \cap bit # {}

\* Enable: lock; a line in neither mask becomes an input and the files are
\* requested again; unlock.
BankEnable(p) ==
    /\ kind = "Bank"
    /\ pc[p] = "enable"
    /\ ~bank.mu
    /\ LET bit == Bit(call[p].idx) IN
       IF AlreadyEnabled(bank, bit)
       THEN BankDone(p, "Enable", {[bank |-> bank, hw |-> hw, trace |-> <<>>, io |-> <<>>, err |-> FALSE]})
       ELSE BankDone(p, "Enable", EnableRWLocked([bank EXCEPT !.insMask = @ \cup bit], hw))
    /\ ghost' = Reconfigured(p, ret')
    /\ UNCHANGED <<kind, test, poll, vec, flag, chs, gor>>

\* Output is called: valid(g) returns the error, or Output goes on to b.mu.Lock().
BankOutputCall(p) ==
    /\ p \in test.callers
    /\ "Output" \in test.ops
    /\ kind = "Bank"
    /\ pc[p] = "idle"
    /\ \E g \in Indices, output \in BOOLEAN :
          IF BankValid(g)
          THEN Return(p, [op |-> "Output", p |-> p, idx |-> g, err |-> TRUE,
                          open |-> {}, written |-> {}])
          ELSE Enter(p, "Output", g, output, "output")
    /\ io' = <<>>
    /\ trace' = <<>>
    /\ UNCHANGED <<kind, test, poll, vec, flag, bank, hw, chs, gor, ghost>>

\* Mutant: Output adds the line to the wanted mask and leaves the other mask.
OutputMasksAdded(b, bit, output) ==
    IF output
    THEN [b EXCEPT !.outsMask = @ \cup bit]
    ELSE [b EXCEPT !.insMask = @ \cup bit]

\* The masks after Output moved the line: "outsMask |= bit; insMask ^= bit" for
\* an output, "insMask |= bit; outsMask ^= bit" for an input.
OutputMasks(b, bit, output) ==
    IF output
    THEN [b EXCEPT !.outsMask = @ \cup bit, !.insMask = Xor(@, bit)]
    ELSE [b EXCEPT !.insMask = @ \cup bit, !.outsMask = Xor(@, bit)]

\* Output: lock; a line already in the wanted mask is left alone; otherwise the
\* masks change and the files are requested again; unlock.
BankOutput(p) ==
    /\ kind = "Bank"
    /\ pc[p] = "output"
    /\ ~bank.mu
    /\ LET bit == Bit(call[p].idx)
           output == call[p].val
       IN IF \/ output /\ bank.outsMask \cap bit # {}
             \/ ~output /\ bank.insMask \cap bit # {}
          THEN /\ BankDone(p, "Output", {[bank |-> bank, hw |-> hw, trace |-> <<>>, io |-> <<>>, err |-> FALSE]})
               /\ ghost' = Reconfigured(p, ret')
          ELSE /\ BankDone(p, "Output", EnableRWLocked(OutputMasks(bank, bit, output), hw))
               /\ ghost' = [Reconfigured(p, ret') EXCEPT
                               !.lastW = {d \in @ : d[1] # call[p].idx}]
    /\ UNCHANGED <<kind, test, poll, vec, flag, chs, gor>>

\* SetHold is called, by Set or directly: valid(g) returns the error (Set
\* returns it too), or SetHold goes on to b.mu.Lock().
BankSetHoldCall(p) ==
    /\ p \in test.callers
    /\ kind = "Bank"
    /\ pc[p] = "idle"
    /\ \E op \in {"Set", "SetHold"} \cap test.ops, g \in Indices :
          IF BankValid(g)
          THEN Return(p, IF op = "Set"
                         THEN [op |-> "Set", p |-> p, idx |-> g, err |-> TRUE, ioErr |-> FALSE,
                               open |-> {}]
                         ELSE [op |-> "SetHold", p |-> p, idx |-> g, err |-> TRUE])
          ELSE Enter(p, op, g, FALSE, "sethold")
    /\ io' = <<>>
    /\ trace' = <<>>
    /\ UNCHANGED <<kind, test, poll, vec, flag, bank, hw, chs, gor, ghost>>

\* Mutant: SetHold takes every line for an output.
NotWriteEnabledNever(b, bit) == FALSE

\* "if b.outsMask&bit == 0": the line is no output.
NotWriteEnabled(b, bit) == b.outsMask \cap bit = {}

\* SetHold: lock; a line that is no output is an error (unlock, return);
\* otherwise "go func()": the commit goroutine inherits the locked mutex and
\* SetHold returns the channel at once.
BankSetHold(p) ==
    /\ kind = "Bank"
    /\ pc[p] = "sethold"
    /\ ~bank.mu
    /\ IF NotWriteEnabled(bank, Bit(call[p].idx))
       THEN /\ Return(p, IF call[p].op = "Set"
                         THEN [op |-> "Set", p |-> p, idx |-> call[p].idx,
                               err |-> TRUE, ioErr |-> FALSE, open |-> {}]
                         ELSE [op |-> "SetHold", p |-> p, idx |-> call[p].idx, err |-> TRUE])
            /\ UNCHANGED <<bank, chs, gor>>
       ELSE /\ \E c \in Chans : FreeChan(c)
            /\ LET c == NewChan IN
                  /\ bank' = [bank EXCEPT !.mu = TRUE]
                  /\ chs' = [chs EXCEPT ![c] = [st |-> "open", ioErr |-> FALSE]]
                  /\ gor' = [gor EXCEPT ![c] = [pc |-> "select", index |-> call[p].idx]]
                  /\ Returned(p, c)
    /\ io' = <<>>
    /\ trace' = <<>>
    /\ UNCHANGED <<kind, test, poll, vec, flag, hw, ghost>>

\* Mutant: the goroutine never binds the slot.
BankBindNever(setCh, c) == setCh

\* "if b.setCh == nil { b.setCh = ch }": the slot after the goroutine of
\* channel c looked at it.
BankBind(setCh, c) == IF setCh = Nil THEN c ELSE setCh

\* Mutant: the bit is toggled whether or not it already has the value.
BankSameNever(outs, bit, on) == FALSE

\* "if isOn := b.outs&bit != 0; on == isOn { return }": nothing to do.
BankSame(outs, bit, on) == on = (outs \cap bit # {})

\* "for ok { _, ok = <-ch }" ends: the receive reports the channel closed.
BankDrained(c) == chs[c].st = "closed"

\* One turn of the commit goroutine's loop, entered locked: bind the slot if it
\* is free; if this channel holds the slot, select: a received value frees the
\* slot and, if it differs from the cached one, is stored and written out
\* (setOutsLocked's error is dropped); a close frees the slot; both end the
\* goroutine, the first once the channel is closed.  Otherwise unlock and yield.
BankCommit(c) ==
    /\ kind = "Bank"
    /\ gor[c].pc = "select"
    /\ LET bit == Bit(gor[c].index)
           setCh == BankBind(bank.setCh, c)
       IN
       IF setCh = c /\ Sender(c) # {}
       THEN \E p \in Sender(c) :
               /\ pc' = [pc EXCEPT ![p] = "sent"]
               /\ IF BankSame(bank.outs, bit, call[p].val)
                  THEN /\ bank' = [bank EXCEPT !.setCh = Nil, !.mu = FALSE]
                       /\ GorEnds(c)
                       /\ ghost' = Received(c, gor[c].index, call[p].val, FALSE)
                       /\ io' = <<>>
                       /\ trace' = <<>>
                       /\ UNCHANGED hw
                  ELSE \E o \in SetOutsLocked([bank EXCEPT !.setCh = Nil, !.outs = Xor(@, bit)], hw) :
                          /\ bank' = o.bank
                          /\ hw' = o.hw
                          /\ trace' = o.trace
                          /\ io' = o.io
                          /\ chs' = [chs EXCEPT ![c].ioErr = o.err]
                          /\ gor' = [gor EXCEPT ![c].pc = "drain"]
                          /\ ghost' = Received(c, gor[c].index, call[p].val, TRUE)
       ELSE IF setCh = c /\ chs[c].st = "closed"
       THEN /\ bank' = Released(bank)
            /\ GorEnds(c)
            /\ io' = <<>>
            /\ trace' = <<>>
            /\ UNCHANGED <<pc, hw, ghost>>
       ELSE /\ bank' = [bank EXCEPT !.setCh = setCh, !.mu = FALSE]
            /\ gor' = [gor EXCEPT ![c].pc = "yield"]
            /\ io' = <<>>
            /\ trace' = <<>>
            /\ UNCHANGED <<pc, hw, chs, ghost>>
    /\ ret' = None
    /\ UNCHANGED <<kind, test, poll, vec, flag, call>>

\* b.mu.Lock() after runtime.Gosched() in the commit goroutine.
BankCommitLock(c) ==
    /\ kind = "Bank"
    /\ gor[c].pc = "yield"
    /\ ~bank.mu
    /\ bank' = [bank EXCEPT !.mu = TRUE]
    /\ gor' = [gor EXCEPT ![c].pc = "select"]
    /\ ret' = None
    /\ io' = <<>>
    /\ trace' = <<>>
    /\ UNCHANGED <<kind, test, poll, vec, flag, hw, chs, pc, call, ghost>>

\* "for ok { _, ok = <-ch }", then the deferred Unlock.
BankCommitDrain(c) ==
    /\ kind = "Bank"
    /\ gor[c].pc = "drain"
    /\ BankDrained(c)
    /\ bank' = [bank EXCEPT !.mu = FALSE]
    /\ GorEnds(c)
    /\ ret' = None
    /\ io' = <<>>
    /\ trace' = <<>>
    /\ UNCHANGED <<kind, test, poll, vec, flag, hw, pc, call, ghost>>

\* The level of line l of chip h: that of the output line wired to it, if one
\* is, and else the level applied from outside.
Level(h, l) ==
    IF \E w \in test.wire : w[2] = l
    THEN \E w \in test.wire : w[2] = l /\ w[1] \in h.out
    ELSE l \in h.in

\* What the kernel may report as the levels of the given lines: any levels
\* when the test leaves the inputs floating, else the levels of the chip.
Levels(h, lines) ==
    IF test.free THEN SUBSET lines ELSE {{l \in lines : Level(h, l)}}

\* Mutant: the refresh goes on without chip or input file.
NotPresentNever(b) == FALSE

\* "if present := b.f != nil; !present || b.insF == nil { return }".
NotPresent(b) == ~b.f \/ ~b.insF.open

\* Mutant: a read that fails is taken for a read of all lines low.
ReadFailedAsLow(b) ==
    [bank |-> [b EXCEPT !.ins = {}], trace |-> <<>>, when |-> b.ins # {}, ends |-> TRUE,
     io |-> <<GetValues(b.insF, b.pollMask, {}, TRUE)>>]

\* "if err := ioctl(b.insF, cmdLineGetValues, ...); err != nil { return }".
ReadFailed(b) ==
    [bank |-> b, trace |-> <<>>, when |-> FALSE, ends |-> TRUE,
     io |-> <<GetValues(b.insF, b.pollMask, {}, TRUE)>>]

\* Mutant: the input state read is cached and sampled whether it changed or not.
ReadAlwaysNew(b, val) == FALSE

\* "if val == b.ins { return }".
ReadSame(b, val) == val = b.ins

\* "for m := uint64(1); m <= b.insMask; m <<= 1", from m = 1 << g on: TRUE when
\* the loop ends.  It ends when m exceeds insMask, that is when no line from g
\* up is in insMask; m shifted past the top bit is 0, which stays 0 and never
\* exceeds insMask.
RECURSIVE UnpackLoopEnds(_, _)
UnpackLoopEnds(g, insMask) ==
    IF Bit(g) = {} THEN FALSE
    ELSE IF \A l \in insMask : l < g THEN TRUE
    ELSE UnpackLoopEnds(g + 1, insMask)

\* refreshInputLocked on bank b and chip h: every outcome [bank, trace, io,
\* when, ends] (when: b.insWhen was assigned; ends: the call returns).  Without
\* an open chip or input file, or when the ioctl fails, nothing changes.
\* Otherwise the kernel reports the levels of the requested lines in rank
\* order, which are unpacked along insMask by a loop that may not end; a
\* changed input state is cached, timestamped and sampled.
RefreshInputLocked(b, h) ==
    IF NotPresent(b)
    THEN {[bank |-> b, trace |-> <<>>, io |-> <<>>, when |-> FALSE, ends |-> TRUE]}
    ELSE {ReadFailed(b) : x \in {"get"} \cap test.faults}
         \cup
         {LET bits == Pack(b.insF.lines, levels) \cap b.pollMask
              val == Unpack(b.insMask, bits)
          IN IF ~UnpackLoopEnds(0, b.insMask)
             THEN [bank |-> b, trace |-> <<>>, when |-> FALSE, ends |-> FALSE,
                   io |-> <<GetValues(b.insF, b.pollMask, bits, FALSE)>>]
             ELSE IF ReadSame(b, val)
             THEN [bank |-> b, trace |-> <<>>, when |-> FALSE, ends |-> TRUE,
                   io |-> <<GetValues(b.insF, b.pollMask, bits, FALSE)>>]
             ELSE [bank |-> [b EXCEPT !.ins = val],
                   trace |-> IF b.insMask \cup b.outsMask # {}
                             THEN Sample(b.tracer, b.insMask \cup b.outsMask, val \cup b.outs)
                             ELSE <<>>,
                   when |-> TRUE, ends |-> TRUE,
                   io |-> <<GetValues(b.insF, b.pollMask, bits, FALSE)>>]
          : levels \in Levels(h, b.insF.lines)}

\* Get is called: valid(g) returns the error, or Get goes on to b.mu.Lock().
BankGetCall(p) ==
    /\ p \in test.callers
    /\ "Get" \in test.ops
    /\ kind = "Bank"
    /\ pc[p] = "idle"
    /\ \E g \in Indices :
          IF BankValid(g)
          THEN Return(p, GetRet(p, g, FALSE, TRUE))
          ELSE Enter(p, "Get", g, FALSE, "get")
    /\ io' = <<>>
    /\ trace' = <<>>
    /\ UNCHANGED <<kind, test, poll, vec, flag, bank, hw, chs, gor, ghost>>

\* Get: lock; a line in neither mask is an error; an output returns its cached
\* value; an input is refreshed and returns what was read; unlock.  A refresh
\* that does not end keeps the caller in it with the mutex locked.
BankGet(p) ==
    /\ kind = "Bank"
    /\ pc[p] = "get"
    /\ ~bank.mu
    /\ LET g == call[p].idx
           bit == Bit(g)
       IN IF (bank.insMask \cup bank.outsMask) \cap bit = {}
          THEN /\ Return(p, GetRet(p, g, FALSE, TRUE))
               /\ io' = <<>>
               /\ trace' = <<>>
               /\ UNCHANGED bank
          ELSE IF bit \cap bank.outsMask # {}
          THEN /\ Return(p, GetRet(p, g, bit \cap bank.outs # {}, FALSE))
               /\ io' = <<>>
               /\ trace' = <<>>
               /\ UNCHANGED bank
          ELSE \E o \in RefreshInputLocked(bank, hw) :
                  /\ trace' = o.trace
                  /\ io' = o.io
                  /\ IF o.ends
                     THEN /\ bank' = o.bank
                          /\ Return(p, GetRet(p, g, bit \cap o.bank.ins # {}, FALSE))
                     ELSE /\ bank' = [o.bank EXCEPT !.mu = TRUE]
                          /\ pc' = [pc EXCEPT ![p] = "refresh"]
                          /\ ret' = None
                          /\ UNCHANGED call
    /\ UNCHANGED <<kind, test, poll, vec, flag, hw, chs, gor, ghost>>

\* Mutant: a Bank without lines counts as having some.
AnyLineAlways(b) == TRUE

\* "m := b.insMask | b.outsMask; m != 0".
AnyLine(b) == b.insMask \cup b.outsMask # {}

\* SetTracer(tracer): lock; set the tracer; a non-nil tracer of a bank with an
\* enabled line gets one sample; unlock.
BankSetTracer(p) ==
    /\ p \in test.callers
    /\ "SetTracer" \in test.ops
    /\ kind = "Bank"
    /\ pc[p] = "idle"
    /\ ~bank.mu
    /\ \E tracer \in BOOLEAN :
          /\ bank' = [bank EXCEPT !.tracer = tracer]
          /\ io' = <<>>
          /\ trace' = IF AnyLine(bank)
                      THEN Sample(tracer, bank.insMask \cup bank.outsMask, bank.ins \cup bank.outs)
                      ELSE <<>>
          /\ Return(p, [op |-> "SetTracer", p |-> p])
    /\ UNCHANGED <<kind, test, poll, vec, flag, hw, chs, gor, ghost>>

\* pollInput, "case <-t.C": the select takes a tick and goes on to b.mu.Lock().
PollTick ==
    /\ kind = "Bank"
    /\ poll.at = "select"
    /\ poll' = [poll EXCEPT !.at = "lock"]
    /\ ret' = None
    /\ io' = <<>>
    /\ trace' = <<>>
    /\ UNCHANGED <<kind, test, vec, flag, bank, hw, chs, gor, pc, call, ghost>>

\* Mutant: the cancellation is taken for a tick.
PollReturnsNever(pl) == [pl EXCEPT !.at = "lock"]

\* "return" of pollInput: the poller is gone.
PollReturns(pl) == [pl EXCEPT !.at = "done"]

\* pollInput, "case <-ctx.Done(): return": the select takes the cancellation.
PollDone ==
    /\ kind = "Bank"
    /\ poll.at = "select"
    /\ poll.cancelled
    /\ poll' = PollReturns(poll)
    /\ ret' = None
    /\ io' = <<>>
    /\ trace' = <<>>
    /\ UNCHANGED <<kind, test, vec, flag, bank, hw, chs, gor, pc, call, ghost>>

\* pollInput: b.mu.Lock(); b.refreshInputLocked(); b.mu.Unlock(); and back to
\* the select.  What returns is the refresh, to the poller; a refresh that
\* does not end keeps the poller in it with the mutex locked.
PollRefresh ==
    /\ kind = "Bank"
    /\ poll.at = "lock"
    /\ ~bank.mu
    /\ \E o \in RefreshInputLocked(bank, hw) :
          /\ trace' = o.trace
          /\ io' = o.io
          /\ IF o.ends
             THEN /\ bank' = o.bank
                  /\ poll' = [poll EXCEPT !.at = "select", !.when = o.when]
                  /\ ret' = [op |-> "poll"]
             ELSE /\ bank' = [o.bank EXCEPT !.mu = TRUE]
                  /\ poll' = [poll EXCEPT !.at = "refresh"]
                  /\ ret' = None
    /\ UNCHANGED <<kind, test, vec, flag, hw, chs, gor, pc, call, ghost>>

\* The owner of the context passed to OpenBank cancels it.
Cancel ==
    /\ kind = "Bank"
    /\ ~poll.cancelled
    /\ poll' = [poll EXCEPT !.cancelled = TRUE]
    /\ ret' = None
    /\ io' = <<>>
    /\ trace' = <<>>
    /\ UNCHANGED <<kind, test, vec, flag, bank, hw, chs, gor, pc, call, ghost>>

\* Close: lock; close the output and the input file, which releases their
\* lines, and the chip; unlock.  It returns the error of closing the chip,
\* which a second Close gets for its nil file.
BankClose(p) ==
    /\ p \in test.callers
    /\ "Close" \in test.ops
    /\ kind = "Bank"
    /\ pc[p] = "idle"
    /\ ~bank.mu
    /\ bank' = [bank EXCEPT !.outsF = NilFile, !.insF = NilFile, !.f = FALSE]
    /\ hw' = [hw EXCEPT !.out = @ \ bank.outsF.lines]
    /\ io' = <<>>
    /\ trace' = <<>>
    /\ Return(p, [op |-> "Close", p |-> p, err |-> ~bank.f])
    /\ UNCHANGED <<kind, test, vec, flag, chs, gor, ghost, poll>>

\* ------------------------------------------------------------ the program
\* The indices a test passes to each container: the valid ones and some that
\* valid() rejects.
TestIndices(k) ==
    CASE k \in {"Vector", "NilVector"} -> -1..VecLen
      [] k = "Flag" -> {0, 1, 63}
      [] k = "Bank" -> 0..BankLines

\* OpenBank() of a chip with the given number of lines.
OpenBank(lines) ==
    [f |-> TRUE, lines |-> lines, tracer |-> FALSE, mu |-> FALSE,
     outs |-> {}, outsMask |-> {}, outsF |-> NilFile, setCh |-> Nil,
     ins |-> {}, insMask |-> {}, pollMask |-> {}, insF |-> NilFile]

\* The methods the concurrent callers call on each container.
TestOps(k) ==
    CASE k \in {"Vector", "NilVector"} -> {"Get", "Set", "SetHold"}
      [] k = "Flag" -> {"Get", "Set", "SetHold", "SetTracer"}
      [] k = "Bank" -> {"Get", "Set", "SetHold", "Enable", "Output"}

\* NewVector(VecLen), NewFlag() or OpenBank(): the container, no call begun.
Fresh ==
    /\ vec = [val |-> [i \in 1..VecLen |-> 0], setCh |-> Nil, mu |-> FALSE]
    /\ flag = [value |-> {}, mask |-> {}, setCh |-> Nil, tracer |-> FALSE, mu |-> FALSE]
    /\ bank = OpenBank(BankLines)
    /\ hw = [out |-> {}, in |-> {}]
    /\ trace = <<>>
    /\ io = <<>>
    /\ chs = [c \in Chans |-> NoChan]
    /\ gor = [c \in Chans |-> NoGor]
    /\ pc = [p \in Callers |-> "idle"]
    /\ call = [p \in Callers |-> NoCall]
    /\ ret = None
    /\ ghost = [lastW |-> {}, dirty |-> {}, failed |-> None]
    /\ poll = Polling

\* All callers use one container concurrently; the chip may refuse to set values.
Init ==
    /\ Fresh
    /\ kind \in Kinds
    /\ test = [callers |-> Callers, ops |-> TestOps(kind), indices |-> TestIndices(kind),
               faults |-> {"set"}, free |-> TRUE, wire |-> {}, history |-> TRUE]

Next ==
    \/ \E p \in Callers : HandleSend(p)
    \/ \E p \in Callers : HandleClose(p)
    \/ \E p \in Callers : VectorGetCall(p)
    \/ \E p \in Callers : VectorGet(p)
    \/ \E p \in Callers : VectorSetHoldCall(p)
    \/ \E p \in Callers : VectorSetHold(p)
    \/ \E c \in Chans : VectorCommit(c)
    \/ \E c \in Chans : VectorCommitLock(c)
    \/ \E c \in Chans : VectorCommitDrain(c)
    \/ \E p \in Callers : FlagGetCall(p)
    \/ \E p \in Callers : FlagGet(p)
    \/ \E p \in Callers : FlagSetHoldCall(p)
    \/ \E p \in Callers : FlagSetHold(p)
    \/ \E c \in Chans : FlagCommit(c)
    \/ \E c \in Chans : FlagCommitLock(c)
    \/ \E c \in Chans : FlagCommitDrain(c)
    \/ \E p \in Callers : FlagSetTracer(p)
    \/ \E p \in Callers : BankEnableCall(p)
    \/ \E p \in Callers : BankEnable(p)
    \/ \E p \in Callers : BankOutputCall(p)
    \/ \E p \in Callers : BankOutput(p)
    \/ \E p \in Callers : BankSetHoldCall(p)
    \/ \E p \in Callers : BankSetHold(p)
    \/ \E c \in Chans : BankCommit(c)
    \/ \E c \in Chans : BankCommitLock(c)
    \/ \E c \in Chans : BankCommitDrain(c)
    \/ \E p \in Callers : BankGetCall(p)
    \/ \E p \in Callers : BankGet(p)

Spec == Init /\ [][Next]_vars

\* ------------------------------------------- one caller, a Bank of more lines
\* The one-caller tests: every method but SetTracer on a chip whose every
\* ioctl may fail; and every method but Get, with a tracer, on a healthy chip.
\* The inputs float in both.
SeqTests ==
    {[callers |-> {1}, ops |-> {"Get", "Set", "SetHold", "Enable", "Output"},
      indices |-> 0..SeqLines, faults |-> {"request", "get"},
      free |-> TRUE, wire |-> {}, history |-> FALSE],
     [callers |-> {1}, ops |-> {"Set", "SetHold", "Enable", "Output", "SetTracer"},
      indices |-> 0..SeqLines, faults |-> {}, free |-> TRUE, wire |-> {},
      history |-> FALSE]}

\* One caller uses an open Bank of SeqLines lines.
InitSeq ==
    /\ kind = "Bank"
    /\ test \in SeqTests
    /\ vec = [val |-> [i \in 1..VecLen |-> 0], setCh |-> Nil, mu |-> FALSE]
    /\ flag = [value |-> {}, mask |-> {}, setCh |-> Nil, tracer |-> FALSE, mu |-> FALSE]
    /\ bank = OpenBank(SeqLines)
    /\ hw = [out |-> {}, in |-> {}]
    /\ trace = <<>>
    /\ io = <<>>
    /\ chs = [c \in Chans |-> NoChan]
    /\ gor = [c \in Chans |-> NoGor]
    /\ pc = [p \in Callers |-> "idle"]
    /\ call = [p \in Callers |-> NoCall]
    /\ ret = None
    /\ ghost = [lastW |-> {}, dirty |-> {}, failed |-> None]
    /\ poll = Polling

NextSeq ==
    \/ \E p \in Callers : HandleSend(p)
    \/ \E p \in Callers : HandleClose(p)
    \/ \E p \in Callers : BankEnableCall(p)
    \/ \E p \in Callers : BankEnable(p)
    \/ \E p \in Callers : BankOutputCall(p)
    \/ \E p \in Callers : BankOutput(p)
    \/ \E p \in Callers : BankSetHoldCall(p)
    \/ \E p \in Callers : BankSetHold(p)
    \/ \E c \in Chans : BankCommit(c)
    \/ \E c \in Chans : BankCommitLock(c)
    \/ \E c \in Chans : BankCommitDrain(c)
    \/ \E p \in Callers : BankGetCall(p)
    \/ \E p \in Callers : BankGet(p)
    \/ \E p \in Callers : BankSetTracer(p)

SpecSeq == InitSeq /\ [][NextSeq]_vars

\* ------------------------------------- one caller, an output wired to an input
\* The Bank and chip after Enable(l, true) for every line of ins and outs and
\* Output(l, true) for every line of outs, all successful: the state the last of
\* these calls leaves.
Configured(ins, outs) ==
    CHOOSE o \in EnableRWLocked([OpenBank(LoopLines) EXCEPT !.insMask = ins,
                                                            !.outsMask = outs],
                                [out |-> {}, in |-> {}]) : ~o.err

\* The tests of a healthy chip with output line o wired to input line i: one
\* for every choice of disjoint input and output lines and of the wired pair.
LoopTests ==
    {[callers |-> {1}, ops |-> {"Get", "Set", "SetHold"}, indices |-> 0..(LoopLines - 1),
      faults |-> {}, free |-> FALSE, wire |-> {<<o, i>>}, history |-> TRUE,
      ins |-> ins, outs |-> outs]
       : <<ins, outs, o, i>> \in
           {c \in (SUBSET (0..(LoopLines - 1))) \X (SUBSET (0..(LoopLines - 1)))
                    \X (0..(LoopLines - 1)) \X (0..(LoopLines - 1)) :
               c[1] \cap c[2] = {} /\ c[3] \in c[2] /\ c[4] \in c[1]}}

\* One caller has configured the lines of a Bank; the inputs that are not
\* wired are all low or all high.
InitLoop ==
    /\ kind = "Bank"
    /\ \E t \in LoopTests, high \in BOOLEAN :
          /\ test = [x \in {"callers", "ops", "indices", "faults", "free", "wire",
                             "history"} |-> t[x]]
          /\ bank = Configured(t.ins, t.outs).bank
          /\ hw = [out |-> {}, in |-> IF high THEN t.ins ELSE {}]
    /\ vec = [val |-> [i \in 1..VecLen |-> 0], setCh |-> Nil, mu |-> FALSE]
    /\ flag = [value |-> {}, mask |-> {}, setCh |-> Nil, tracer |-> FALSE, mu |-> FALSE]
    /\ trace = <<>>
    /\ io = <<>>
    /\ chs = [c \in Chans |-> NoChan]
    /\ gor = [c \in Chans |-> NoGor]
    /\ pc = [p \in Callers |-> "idle"]
    /\ call = [p \in Callers |-> NoCall]
    /\ ret = None
    /\ ghost = [lastW |-> {}, dirty |-> {}, failed |-> None]
    /\ poll = Polling

NextLoop ==
    \/ \E p \in Callers : HandleSend(p)
    \/ \E p \in Callers : HandleClose(p)
    \/ \E p \in Callers : BankSetHoldCall(p)
    \/ \E p \in Callers : BankSetHold(p)
    \/ \E c \in Chans : BankCommit(c)
    \/ \E c \in Chans : BankCommitLock(c)
    \/ \E c \in Chans : BankCommitDrain(c)
    \/ \E p \in Callers : BankGetCall(p)
    \/ \E p \in Callers : BankGet(p)

SpecLoop == InitLoop /\ [][NextLoop]_vars

\* ------------------------------------------ the hold protocol, with tracers
\* The output lines of the Bank whose holds are tested.
HoldOuts == {0, 1}

\* How the hold protocol of container k is tested: all callers read, write and
\* hold its indices (for a Bank: its output lines) and set tracers.
HoldTest(k) ==
    [callers |-> Callers, ops |-> {"Get", "Set", "SetHold", "SetTracer"},
     indices |-> IF k = "Bank" THEN HoldOuts ELSE TestIndices(k),
     faults |-> {}, free |-> TRUE, wire |-> {}, history |-> TRUE]

\* A Vector, a Flag, or a Bank whose lines HoldOuts were made outputs.
InitHold ==
    /\ kind \in {"Vector", "Flag", "Bank"}
    /\ test = HoldTest(kind)
    /\ vec = [val |-> [i \in 1..VecLen |-> 0], setCh |-> Nil, mu |-> FALSE]
    /\ flag = [value |-> {}, mask |-> {}, setCh |-> Nil, tracer |-> FALSE, mu |-> FALSE]
    /\ bank = IF kind = "Bank" THEN Configured({}, HoldOuts).bank ELSE OpenBank(BankLines)
    /\ hw = IF kind = "Bank" THEN Configured({}, HoldOuts).hw ELSE [out |-> {}, in |-> {}]
    /\ trace = <<>>
    /\ io = <<>>
    /\ chs = [c \in Chans |-> NoChan]
    /\ gor = [c \in Chans |-> NoGor]
    /\ pc = [p \in Callers |-> "idle"]
    /\ call = [p \in Callers |-> NoCall]
    /\ ret = None
    /\ ghost = [lastW |-> {}, dirty |-> {}, failed |-> None]
    /\ poll = Polling

NextHold ==
    \/ \E p \in Callers : HandleSend(p)
    \/ \E p \in Callers : HandleClose(p)
    \/ \E p \in Callers : VectorGetCall(p)
    \/ \E p \in Callers : VectorGet(p)
    \/ \E p \in Callers : VectorSetHoldCall(p)
    \/ \E p \in Callers : VectorSetHold(p)
    \/ \E c \in Chans : VectorCommit(c)
    \/ \E c \in Chans : VectorCommitLock(c)
    \/ \E c \in Chans : VectorCommitDrain(c)
    \/ \E p \in Callers : FlagGetCall(p)
    \/ \E p \in Callers : FlagGet(p)
    \/ \E p \in Callers : FlagSetHoldCall(p)
    \/ \E p \in Callers : FlagSetHold(p)
    \/ \E c \in Chans : FlagCommit(c)
    \/ \E c \in Chans : FlagCommitLock(c)
    \/ \E c \in Chans : FlagCommitDrain(c)
    \/ \E p \in Callers : FlagSetTracer(p)
    \/ \E p \in Callers : BankSetHoldCall(p)
    \/ \E p \in Callers : BankSetHold(p)
    \/ \E c \in Chans : BankCommit(c)
    \/ \E c \in Chans : BankCommitLock(c)
    \/ \E c \in Chans : BankCommitDrain(c)
    \/ \E p \in Callers : BankGetCall(p)
    \/ \E p \in Callers : BankGet(p)
    \/ \E p \in Callers : BankSetTracer(p)

SpecHold == InitHold /\ [][NextHold]_vars

\* The steps of the hold protocol of whichever container is under test: the
\* commit goroutine's select, its Lock() after the yield and the end of its
\* drain; Get's locked part; SetHold's polling for the free slot.
Commit(c) == VectorCommit(c) \/ FlagCommit(c) \/ BankCommit(c)
CommitLock(c) == VectorCommitLock(c) \/ FlagCommitLock(c) \/ BankCommitLock(c)
CommitDrain(c) == VectorCommitDrain(c) \/ FlagCommitDrain(c) \/ BankCommitDrain(c)
GetLocked(p) == VectorGet(p) \/ FlagGet(p) \/ BankGet(p)
SetHoldPolled(p) == VectorSetHold(p) \/ FlagSetHold(p)

\* Fair scheduling of the hold protocol.  A goroutine that can run does run.
\* Whoever waits in Lock() gets the mutex if it is released again and again
\* (sync.Mutex hands it to a starving waiter): the commit goroutine after its
\* yield, Get, and SetHold of a Bank.  SetHold of a Vector or Flag polls
\* "lock; slot free?; unlock; yield", so it gets the slot for certain only if
\* the slot stays free while it polls.  The holder of a handle goes on to write
\* it or close it, and closes it after a write.
FairHold ==
    /\ \A c \in Chans :
          WF_vars(Commit(c)) /\ SF_vars(CommitLock(c)) /\ WF_vars(CommitDrain(c))
    /\ \A p \in Callers :
          /\ WF_vars(SetHoldPolled(p))
          /\ SF_vars(BankSetHold(p))
          /\ SF_vars(GetLocked(p))
          /\ WF_vars(HandleSend(p) \/ HandleClose(p))

\* How progress is tested: all callers read, write and hold one index (for a
\* Bank: one output line) of container k.
FairTest(k) ==
    [callers |-> Callers, ops |-> {"Get", "Set", "SetHold"}, indices |-> {0},
     faults |-> {}, free |-> TRUE, wire |-> {}, history |-> FALSE]

\* A Vector, a Flag, or a Bank whose line 0 was made an output.
InitFair ==
    /\ kind \in {"Vector", "Flag", "Bank"}
    /\ test = FairTest(kind)
    /\ vec = [val |-> [i \in 1..VecLen |-> 0], setCh |-> Nil, mu |-> FALSE]
    /\ flag = [value |-> {}, mask |-> {}, setCh |-> Nil, tracer |-> FALSE, mu |-> FALSE]
    /\ bank = IF kind = "Bank" THEN Configured({}, {0}).bank ELSE OpenBank(BankLines)
    /\ hw = IF kind = "Bank" THEN Configured({}, {0}).hw ELSE [out |-> {}, in |-> {}]
    /\ trace = <<>>
    /\ io = <<>>
    /\ chs = [c \in Chans |-> NoChan]
    /\ gor = [c \in Chans |-> NoGor]
    /\ pc = [p \in Callers |-> "idle"]
    /\ call = [p \in Callers |-> NoCall]
    /\ ret = None
    /\ ghost = [lastW |-> {}, dirty |-> {}, failed |-> None]
    /\ poll = Polling

NextFair ==
    \/ \E p \in Callers : HandleSend(p)
    \/ \E p \in Callers : HandleClose(p)
    \/ \E p \in Callers : VectorGetCall(p)
    \/ \E p \in Callers : VectorGet(p)
    \/ \E p \in Callers : VectorSetHoldCall(p)
    \/ \E p \in Callers : VectorSetHold(p)
    \/ \E c \in Chans : VectorCommit(c)
    \/ \E c \in Chans : VectorCommitLock(c)
    \/ \E c \in Chans : VectorCommitDrain(c)
    \/ \E p \in Callers : FlagGetCall(p)
    \/ \E p \in Callers : FlagGet(p)
    \/ \E p \in Callers : FlagSetHoldCall(p)
    \/ \E p \in Callers : FlagSetHold(p)
    \/ \E c \in Chans : FlagCommit(c)
    \/ \E c \in Chans : FlagCommitLock(c)
    \/ \E c \in Chans : FlagCommitDrain(c)
    \/ \E p \in Callers : BankSetHoldCall(p)
    \/ \E p \in Callers : BankSetHold(p)
    \/ \E c \in Chans : BankCommit(c)
    \/ \E c \in Chans : BankCommitLock(c)
    \/ \E c \in Chans : BankCommitDrain(c)
    \/ \E p \in Callers : BankGetCall(p)
    \/ \E p \in Callers : BankGet(p)

SpecHoldFair == InitFair /\ [][NextFair]_vars /\ FairHold

\* ------------------------------------------------- the poller and Close
\* The lines of the Bank the poller is tested on.
PollLines == {0, 1}

\* The poller's tests: one caller reads and writes the lines of a Bank, sets
\* tracers and closes the Bank, while the poller ticks and the context may be
\* cancelled; a read of the inputs may fail and reports any levels.
PollTest ==
    [callers |-> {1}, ops |-> {"Get", "Set", "SetTracer", "Close"},
     indices |-> PollLines, faults |-> {"get"}, free |-> TRUE, wire |-> {},
     history |-> FALSE]

\* A Bank whose lines were made inputs and outputs in some way, its poller
\* started by OpenBank.
InitPoll ==
    /\ kind = "Bank"
    /\ test = PollTest
    /\ \E ins \in SUBSET PollLines, outs \in SUBSET PollLines :
          /\ ins \cap outs = {}
          /\ bank = Configured(ins, outs).bank
          /\ hw = Configured(ins, outs).hw
    /\ vec = [val |-> [i \in 1..VecLen |-> 0], setCh |-> Nil, mu |-> FALSE]
    /\ flag = [value |-> {}, mask |-> {}, setCh |-> Nil, tracer |-> FALSE, mu |-> FALSE]
    /\ trace = <<>>
    /\ io = <<>>
    /\ chs = [c \in Chans |-> NoChan]
    /\ gor = [c \in Chans |-> NoGor]
    /\ pc = [p \in Callers |-> "idle"]
    /\ call = [p \in Callers |-> NoCall]
    /\ ret = None
    /\ ghost = [lastW |-> {}, dirty |-> {}, failed |-> None]
    /\ poll = Polling

NextPoll ==
    \/ PollTick
    \/ PollRefresh
    \/ PollDone
    \/ Cancel
    \/ \E p \in Callers : BankClose(p)
    \/ \E p \in Callers : HandleSend(p)
    \/ \E p \in Callers : HandleClose(p)
    \/ \E p \in Callers : BankSetHoldCall(p)
    \/ \E p \in Callers : BankSetHold(p)
    \/ \E c \in Chans : BankCommit(c)
    \/ \E c \in Chans : BankCommitLock(c)
    \/ \E c \in Chans : BankCommitDrain(c)
    \/ \E p \in Callers : BankGetCall(p)
    \/ \E p \in Callers : BankGet(p)
    \/ \E p \in Callers : BankSetTracer(p)

SpecPoll == InitPoll /\ [][NextPoll]_vars

\* What the Go runtime and the code of Set guarantee: a select with a ready
\* ctx.Done() case chooses at random, so it takes that case sooner or later; a
\* goroutine waiting in Lock() gets the mutex when it is released again and
\* again (sync.Mutex hands it over to a starving waiter); a commit goroutine
\* that can run does run; and Set, once it has its handle, sends and closes.
FairPoll ==
    /\ SF_vars(PollDone)
    /\ SF_vars(PollRefresh)
    /\ \A c \in Chans : /\ WF_vars(BankCommit(c))
                        /\ SF_vars(BankCommitLock(c))
                        /\ WF_vars(BankCommitDrain(c))
    /\ \A p \in Callers : WF_vars(HandleSend(p)) /\ WF_vars(HandleClose(p))

SpecPollFair == InitPoll /\ [][NextPoll]_vars /\ FairPoll

\* ------------------------------------------- a failed reconfiguration, retried
\* The retry test: one caller enables the lines of a Bank and sets their
\* direction on a chip that may refuse every request, and the test remembers
\* the call that failed.
RetryTest ==
    [callers |-> {1}, ops |-> {"Enable", "Output"}, indices |-> 0..SeqLines,
     faults |-> {"request", "set"}, free |-> TRUE, wire |-> {}, history |-> TRUE]

InitRetry ==
    /\ kind = "Bank"
    /\ test = RetryTest
    /\ vec = [val |-> [i \in 1..VecLen |-> 0], setCh |-> Nil, mu |-> FALSE]
    /\ flag = [value |-> {}, mask |-> {}, setCh |-> Nil, tracer |-> FALSE, mu |-> FALSE]
    /\ bank = OpenBank(SeqLines)
    /\ hw = [out |-> {}, in |-> {}]
    /\ trace = <<>>
    /\ io = <<>>
    /\ chs = [c \in Chans |-> NoChan]
    /\ gor = [c \in Chans |-> NoGor]
    /\ pc = [p \in Callers |-> "idle"]
    /\ call = [p \in Callers |-> NoCall]
    /\ ret = None
    /\ ghost = [lastW |-> {}, dirty |-> {}, failed |-> None]
    /\ poll = Polling

NextRetry ==
    \/ \E p \in Callers : BankEnableCall(p)
    \/ \E p \in Callers : BankEnable(p)
    \/ \E p \in Callers : BankOutputCall(p)
    \/ \E p \in Callers : BankOutput(p)

SpecRetry == InitRetry /\ [][NextRetry]_vars

\* --------------------------------------- the top of the mask word and beyond
\* The wide test: the callers enable and read the first line of a chip, the
\* line of the top bit of the mask word and the lines after it, and pass one
\* index the chip does not have, while the poller ticks; the inputs float.
WideTest ==
    [callers |-> Callers, ops |-> {"Enable", "Get"},
     indices |-> {0, WordBits - 1} \cup (WordBits..WideLines),
     faults |-> {}, free |-> TRUE, wire |-> {}, history |-> FALSE]

\* An open Bank of WideLines lines, its poller started by OpenBank.
InitWide ==
    /\ kind = "Bank"
    /\ test = WideTest
    /\ vec = [val |-> [i \in 1..VecLen |-> 0], setCh |-> Nil, mu |-> FALSE]
    /\ flag = [value |-> {}, mask |-> {}, setCh |-> Nil, tracer |-> FALSE, mu |-> FALSE]
    /\ bank = OpenBank(WideLines)
    /\ hw = [out |-> {}, in |-> {}]
    /\ trace = <<>>
    /\ io = <<>>
    /\ chs = [c \in Chans |-> NoChan]
    /\ gor = [c \in Chans |-> NoGor]
    /\ pc = [p \in Callers |-> "idle"]
    /\ call = [p \in Callers |-> NoCall]
    /\ ret = None
    /\ ghost = [lastW |-> {}, dirty |-> {}, failed |-> None]
    /\ poll = Polling

NextWide ==
    \/ PollTick
    \/ PollRefresh
    \/ PollDone
    \/ Cancel
    \/ \E p \in Callers : BankEnableCall(p)
    \/ \E p \in Callers : BankEnable(p)
    \/ \E p \in Callers : BankGetCall(p)
    \/ \E p \in Callers : BankGet(p)

SpecWide == InitWide /\ [][NextWide]_vars

\* ----------------------------------------------------------------- claims
\* The value the container holds at index i.
Stored(i) ==
    CASE kind = "Vector" -> vec.val[i + 1]
      [] kind = "Flag" -> i \in flag.value
      [] kind = "Bank" -> i \in bank.outs

\* The callers that hold an open handle.
Holders == {p \in Callers : HandleOpen(p)}

\* C1: a Get of an index (for a Bank: of an output line) that a Set or a handle
\* wrote before, with no write or change of direction since, returns the value
\* last written, without error.
C1_SetThenGet ==
    /\ ret.op = "Get"
    /\ ret.last.has
    /\ kind = "Bank" => ret.idx \in bank.outsMask
    => ~ret.err /\ ret.val = ret.last.val

\* C1's case: a Get returned a value that a Set had written to a Bank output.
C1_Witness ==
    kind = "Bank" /\ ret.op = "Get" /\ ret.last.has /\ ret.val = TRUE

\* C2 as stated: no line is in both masks of a Bank.
C2_MasksDisjoint ==
    kind = "Bank" => bank.insMask \cap bank.outsMask = {}

\* C3 as stated: no Get, Set, Enable or Output on a Bank completes (past its
\* index check) while another caller's SetHold handle is open.
C3_HoldExcludesAll ==
    kind = "Bank" /\ ret.op \in {"Get", "Set", "Enable", "Output"} /\ ~ret.err
        => ret.open \ {ret.p} = {}

C5_OneHold ==
    kind \in {"Vector", "Flag"} =>
        /\ Cardinality(Holders) <= 1
        /\ \A p \in Holders :
              call[p].ch = (IF kind = "Vector" THEN vec.setCh ELSE flag.setCh)

\* C5's case: a second SetHold waits while a handle is open.
C5_Witness ==
    /\ kind \in {"Vector", "Flag"}
    /\ \E p, q \in Callers : pc[p] = "sethold" /\ HandleOpen(q)

\* C6 as stated: a Bank has at most one open handle.
C6_OneBankHold ==
    kind = "Bank" => Cardinality(Holders) <= 1

\* C7: no Get returns the value of an index that was written through a handle
\* which is still open.
C7_NoUncommittedRead ==
    ret.op = "Get" => ~ret.dirty

\* C7's case: a Get waits while its index holds a value of an open handle.
C7_Witness ==
    \E p \in Callers : pc[p] = "get" /\ Dirty(call[p].idx)

\* C8: at every moment each index that was written through a handle holds the
\* value of the write received last for it, and a Get (for a Bank: of an output
\* line) returns the value its index holds.
C8_WritersSerialize ==
    /\ \A d \in ghost.lastW : Stored(d[1]) = d[2]
    /\ (/\ ret.op = "Get" /\ ~ret.err
        /\ kind = "Bank" => ret.idx \in bank.outsMask)
       => ret.val = Stored(ret.idx)

\* C8's case: both callers have written, to different indices, and both writes
\* are there.
C8_Witness ==
    /\ \A p \in Callers : pc[p] = "idle"
    /\ \E d, e \in ghost.lastW : d[1] # e[1] /\ d[2] # Zero /\ e[2] # Zero

\* C9 as stated: a Set whose write to the chip failed returns an error.
C9_SetReturnsIoError ==
    kind = "Bank" /\ ret.op = "Set" /\ ret.ioErr => ret.err

\* C10 as stated: Get, SetHold and Set of a Vector return an error for an index
\* outside [0, length) and for a nil Vector.
C10_VectorIndexError ==
    /\ kind \in {"Vector", "NilVector"}
    /\ ret.op \in {"Get", "SetHold", "Set"}
    /\ VectorValid(ret.idx)
    => ret.err

\* C11 as stated: Flag.Get, Flag.SetHold and Flag.Set return no error for an
\* index in [0, 64), all the bits Lines() reports.
C11_FlagIndexDomain ==
    /\ kind = "Flag"
    /\ ret.op \in {"Get", "SetHold", "Set"}
    /\ ret.idx \in 0..(WordBits - 1)
    => ~ret.err

\* The line requests of the given direction among the ioctls of a step.
Requests(log, flags) ==
    {k \in 1..Len(log) : log[k].req = "line" /\ log[k].flags = flags}

\* The step is caller p's call of op returning from its locked part.
Completes(p, op, at) == pc[p] = at /\ call[p].op = op /\ pc'[p] = "idle"

\* C12: Enable of a line in neither mask adds it to insMask only and, when it
\* returns no error, has requested both groups of lines again and holds a file
\* for each mask that is not empty; Enable of a line in either mask changes
\* neither mask nor file and makes no ioctl.
C12_Enable ==
    [][\A p \in Callers : Completes(p, "Enable", "enable") =>
          LET i == call[p].idx IN
          IF i \in bank.insMask \cup bank.outsMask
          THEN /\ bank' = bank
               /\ hw' = hw
               /\ io' = <<>>
          ELSE /\ bank'.insMask = bank.insMask \cup {i}
               /\ bank'.outsMask = bank.outsMask
               /\ ~ret'.err =>
                     /\ Cardinality(Requests(io', "input")) = 1
                     /\ Cardinality(Requests(io', "output"))
                           = (IF bank.outsMask = {} THEN 0 ELSE 1)
                     /\ bank'.insF = LineFile(bank'.insMask)
                     /\ bank'.outsF = (IF bank.outsMask = {} THEN NilFile
                                       ELSE LineFile(bank.outsMask))]_vars

\* C12's case: an Enable added a second line to a Bank that has an output.
C12_Witness ==
    /\ kind = "Bank"
    /\ ret.op = "Enable" /\ ~ret.err
    /\ io # <<>>
    /\ bank.outsMask # {}
    /\ ret.idx \in bank.insMask

\* C13: Output(i, true) on an enabled input line i moves i from insMask to
\* outsMask with one request of the output lines; an Output that asks for the
\* direction whose mask the line is in changes nothing and makes no ioctl.
C13_Output ==
    [][\A p \in Callers : Completes(p, "Output", "output") =>
          LET i == call[p].idx
              output == call[p].val
          IN /\ (output /\ i \in bank.insMask \ bank.outsMask) =>
                   /\ bank'.outsMask = bank.outsMask \cup {i}
                   /\ bank'.insMask = bank.insMask \ {i}
                   /\ Cardinality(Requests(io', "output")) = 1
                   /\ Cardinality(Requests(io', "input")) <= 1
             /\ (i \in (IF output THEN bank.outsMask ELSE bank.insMask)) =>
                   /\ bank' = bank
                   /\ hw' = hw
                   /\ io' = <<>>]_vars

\* C13's case: an Output made an enabled input line an output, next to
\* another input line.
C13_Witness ==
    /\ kind = "Bank"
    /\ ret.op = "Output" /\ ~ret.err
    /\ ret.idx \in bank.outsMask \ bank.insMask
    /\ bank.insMask # {}
    /\ Len(io) = 3

\* The set-values requests among the ioctls of a step.
Sets(log) == {k \in 1..Len(log) : log[k].req = "set"}

\* An Enable or Output that changed a direction returned no error.
Rederived == ret.op \in {"Enable", "Output"} /\ ~ret.err /\ io # <<>>

\* After such a call each mask that is not empty has an open file requested for
\* exactly its lines, an empty mask has none, and pollMask has one low bit per
\* input line.
FilesDerived ==
    /\ bank.insF = (IF bank.insMask = {} THEN NilFile
                    ELSE [open |-> TRUE, lines |-> bank.insMask])
    /\ bank.outsF = (IF bank.outsMask = {} THEN NilFile
                     ELSE [open |-> TRUE, lines |-> bank.outsMask])
    /\ bank.pollMask = 0..(Cardinality(bank.insMask) - 1)

\* The call's last ioctl set the output lines to the cached values, packed in
\* ascending line order.
OutsAsserted ==
    LET r == io[Len(io)] IN
    /\ r.req = "set"
    /\ r.lines = bank.outsMask
    /\ r.mask = 0..(Cardinality(bank.outsMask) - 1)
    /\ r.bits = {Cardinality({k \in bank.outsMask : k < l}) : l \in bank.outsMask \cap bank.outs}

\* C14 as stated: after a successful direction-changing Enable or Output the
\* files and pollMask are derived from the masks and one set-values request
\* with the cached outputs has been made.
C14_RederivedAndAsserted ==
    (kind = "Bank" /\ Rederived) =>
        /\ FilesDerived
        /\ Cardinality(Sets(io)) = 1
        /\ OutsAsserted

\* C14, amended: after a successful direction-changing Enable or Output the
\* files and pollMask are derived from the masks; with an output line there is
\* one set-values request with the cached outputs, without one there is none.
C14_RederivedAndAssertedIfOutputs ==
    (kind = "Bank" /\ Rederived) =>
        /\ FilesDerived
        /\ IF bank.outsMask = {}
           THEN Sets(io) = {}
           ELSE Cardinality(Sets(io)) = 1 /\ OutsAsserted

\* C14's case: an Output made a second line an output while the first one's
\* cached value is high.
C14_Witness ==
    /\ kind = "Bank" /\ Rederived
    /\ ret.op = "Output"
    /\ Cardinality(bank.outsMask) = 2
    /\ bank.outs # {}

\* C15: a Bank.SetHold (or Set) of a line that is out of range or not in
\* outsMask returns an error; the call that returns the error leaves the Bank,
\* the chip, every channel and every goroutine as they were, and a call that
\* took the mutex has released it.
C15_SetHoldError ==
    [][\A p \in Callers :
          /\ (/\ kind = "Bank"
              /\ pc[p] = "sethold"
              /\ pc'[p] # "sethold"
              /\ call[p].idx \notin bank.outsMask)
             => pc'[p] = "idle" /\ ret'.err
          /\ (/\ kind = "Bank"
              /\ pc[p] \in {"idle", "sethold"}
              /\ pc'[p] = "idle"
              /\ ret'.op \in {"Set", "SetHold"}
              /\ ret'.p = p)
             => /\ ret'.err
                /\ ret'.idx \notin bank.outsMask \/ BankValid(ret'.idx)
                /\ bank' = bank
                /\ pc[p] = "sethold" => ~bank'.mu
                /\ hw' = hw /\ io' = <<>> /\ trace' = <<>>
                /\ chs' = chs /\ gor' = gor]_vars

\* C15's case: a SetHold of an input line returned its error while the other
\* caller has an open handle.
C15_Witness ==
    /\ kind = "Bank"
    /\ ret.op = "SetHold" /\ ret.err
    /\ ~BankValid(ret.idx)
    /\ ret.idx \in bank.insMask
    /\ \E q \in Callers : HandleOpen(q)

\* C16 as stated: Get of an output line returns the cached outs bit and makes
\* no ioctl; Get of an input line makes one get-values request and returns the
\* bit the kernel reported for the line; Get of a line in neither mask returns
\* an error and makes no ioctl.
C16_Get ==
    (kind = "Bank" /\ ret.op = "Get" /\ ~BankValid(ret.idx)) =>
        LET i == ret.idx IN
        IF i \in bank.outsMask
        THEN ~ret.err /\ ret.val = (i \in bank.outs) /\ io = <<>>
        ELSE IF i \in bank.insMask
        THEN /\ ~ret.err
             /\ Len(io) = 1
             /\ io[1].req = "get"
             /\ ret.val = (Cardinality({k \in bank.insMask : k < i}) \in io[1].bits)
        ELSE ret.err /\ io = <<>> /\ trace = <<>>

\* C17: on a healthy chip with output line o wired to input line i, whatever
\* the disjoint sets of input and output lines, a Get of i returns the value
\* last written to o (low if none was), and a Get of another input line returns
\* the level applied to it.
C17_Loopback ==
    (kind = "Bank" /\ test.wire # {} /\ ret.op = "Get" /\ ~ret.err
        /\ ret.idx \in bank.insMask) =>
        IF \E w \in test.wire : w[2] = ret.idx
        THEN \A w \in test.wire : w[2] = ret.idx =>
                ret.val = (Last(w[1]).has /\ Last(w[1]).val)
        ELSE ret.val = (ret.idx \in hw.in)

\* C17's case: a Get of the wired input returned the high level set on the
\* output, the two lines having different places in their groups.
C17_Witness ==
    /\ kind = "Bank" /\ ret.op = "Get" /\ ret.val = TRUE
    /\ \E w \in test.wire :
          /\ w[2] = ret.idx
          /\ Cardinality({k \in bank.insMask : k < w[2]}) = 0
          /\ Cardinality({k \in bank.outsMask : k < w[1]}) = 1
          /\ w[2] = 1

\* The hold slot and the mutex of the container under test.
Slot == CASE kind = "Flag" -> flag.setCh [] kind = "Bank" -> bank.setCh [] OTHER -> vec.setCh
Mu == CASE kind = "Flag" -> flag.mu [] kind = "Bank" -> bank.mu [] OTHER -> vec.mu

\* The step changes no value, no mask and no file of the container, nothing on
\* the chip, and samples nothing.
NoEffect ==
    /\ vec'.val = vec.val
    /\ flag'.value = flag.value /\ flag'.mask = flag.mask /\ flag'.tracer = flag.tracer
    /\ [bank' EXCEPT !.setCh = Nil, !.mu = FALSE] = [bank EXCEPT !.setCh = Nil, !.mu = FALSE]
    /\ hw' = hw
    /\ io' = <<>>
    /\ trace' = <<>>

\* The step is the commit goroutine of channel c finding, in its select, the
\* channel closed with nothing written to it.
ClosedUnwritten(c) == gor[c].pc = "select" /\ gor'[c].pc = "none"

\* C18: when the commit goroutine finds its channel closed with no value sent,
\* it changes no value, mask, file or chip state and samples nothing, and it
\* leaves the hold slot and the mutex free.
C18_CloseWithoutWrite ==
    [][\A c \in Chans : ClosedUnwritten(c) =>
          /\ NoEffect
          /\ Slot' = Nil
          /\ ~Mu']_vars

\* C18's case: with a tracer installed, a handle was closed unwritten and its
\* goroutine has not yet seen it.
C18_Witness ==
    /\ \/ kind = "Flag" /\ flag.tracer
       \/ kind = "Bank" /\ bank.tracer
    /\ \E c \in Chans : gor[c].pc = "select" /\ chs[c].st = "closed" /\ Slot = c

\* The step is the commit goroutine receiving the value caller p sends.
Receives(p) == pc[p] = "send" /\ pc'[p] = "sent"

\* The step is the commit goroutine of channel c returning.
GorReturns(c) == gor[c].pc \in {"select", "drain"} /\ gor'[c].pc \in {"none", "done"}

\* C19 as stated: the commit of a value equal to the one the index holds
\* changes no container state and samples nothing, and the goroutine's return
\* leaves the hold slot and the mutex free.
C19_EqualWrite ==
    [][/\ \A p \in Callers : (Receives(p) /\ call[p].val = Stored(call[p].idx)) => NoEffect
       /\ \A c \in Chans : GorReturns(c) => Slot' = Nil /\ ~Mu']_vars

\* C19, amended: as stated for Vector, Bank and a Flag bit that is in the
\* mask; an equal write to a Flag bit outside the mask adds the bit to the mask,
\* leaves the value, and is sampled once if a tracer is installed.
C19_EqualWriteRevealed ==
    [][/\ \A p \in Callers : (Receives(p) /\ call[p].val = Stored(call[p].idx)) =>
             IF kind = "Flag" /\ call[p].idx \notin flag.mask
             THEN /\ flag'.mask = flag.mask \cup {call[p].idx}
                  /\ flag'.value = flag.value
                  /\ trace' = (IF flag.tracer
                               THEN <<[mask |-> flag'.mask, value |-> flag.value]>>
                               ELSE <<>>)
             ELSE NoEffect
       /\ \A c \in Chans : GorReturns(c) => Slot' = Nil /\ ~Mu']_vars

\* C19's case: with a tracer installed, a value equal to the one held was
\* received and its handle is still open.
C19_Witness ==
    /\ \/ kind = "Flag" /\ flag.tracer
       \/ kind = "Bank" /\ bank.tracer
    /\ \E p \in Callers :
          /\ pc[p] = "sent"
          /\ call[p].val = TRUE
          /\ Stored(call[p].idx) = TRUE
          /\ trace = <<>>
          /\ ghost.dirty = {}

\* Caller q's call, Set and SetHold apart, returns from its locked part.
Finishes(q) ==
    \/ pc[q] \in {"get", "enable", "output"} /\ pc'[q] = "idle"
    \/ pc[q] = "idle" /\ ret'.op = "SetTracer" /\ ret'.p = q

\* Caller q's SetHold returns a handle.
Acquires(q) == pc[q] = "sethold" /\ pc'[q] = "held"

\* C20 as stated: while a handle stays open the hold slot, once bound to it,
\* stays bound to it, and no other caller's write is committed; and once a
\* value was written to the open handle no Get, SetHold or SetTracer of another
\* caller completes.
C20_NoRevocation ==
    [][\A p \in Callers : (HandleOpen(p) /\ pc'[p] = pc[p]) =>
          /\ Slot = call[p].ch => Slot' = call[p].ch
          /\ \A q \in Callers \ {p} : ~Receives(q)
          /\ HandleWritten(p) =>
                \A q \in Callers \ {p} : ~Finishes(q) /\ ~Acquires(q)]_vars

\* The step is a tick of the poller: it held b.mu and ran refreshInputLocked.
Tick == kind = "Bank" /\ poll.at = "lock" /\ poll'.at = "select"

\* The input state a get-values answer unpacks to, for the bank before the step.
Unpacked(bits) ==
    {l \in bank.insMask : Cardinality({k \in bank.insMask : k < l}) \in bits}

\* C21: a tick of the poller takes the Bank's mutex and, on a Bank with an
\* open input request, issues one get-values request for all the lines of
\* insMask.  When the answer unpacks to the cached ins the Bank is unchanged,
\* insWhen is not assigned and nothing is sampled; when it differs only ins
\* changes, insWhen is assigned and the tracer, if any, gets exactly one sample
\* of mask insMask|outsMask and value ins|outs.
C21_PollerTick ==
    [][Tick =>
         /\ ~bank.mu
         /\ ~bank'.mu
         /\ (bank.f /\ bank.insF.open) =>
               /\ Len(io') = 1
               /\ io'[1].req = "get"
               /\ io'[1].lines = bank.insMask
               /\ io'[1].mask = 0..(Cardinality(bank.insMask) - 1)
               /\ ~io'[1].err =>
                     IF Unpacked(io'[1].bits) = bank.ins
                     THEN bank' = bank /\ ~poll'.when /\ trace' = <<>>
                     ELSE /\ bank' = [bank EXCEPT !.ins = Unpacked(io'[1].bits)]
                          /\ poll'.when
                          /\ trace' = IF bank.tracer
                                      THEN <<[mask |-> bank.insMask \cup bank.outsMask,
                                              value |-> bank'.ins \cup bank.outs]>>
                                      ELSE <<>>]_vars

\* A tick has read a changed input state, stamped it and sampled it.
C21_Witness ==
    /\ kind = "Bank"
    /\ ret.op = "poll"
    /\ poll.at = "select"
    /\ poll.when
    /\ Len(io) = 1
    /\ io[1].req = "get"
    /\ Len(trace) = 1
    /\ bank.ins # {}

\* C22: a tick whose get-values request fails changes nothing of the Bank (ins,
\* the masks), does not assign insWhen and samples nothing; the poller is back
\* in its select, from where a tick is taken again, and every tick on a Bank
\* with an open input request issues the request again.
C22_ReadFailureSwallowed ==
    [][Tick =>
         /\ (bank.f /\ bank.insF.open) => (Len(io') = 1 /\ io'[1].req = "get")
         /\ (io' # <<>> /\ io'[1].err) =>
               /\ bank' = bank
               /\ ~poll'.when
               /\ trace' = <<>>
               /\ poll'.cancelled = poll.cancelled]_vars

\* A tick's read has failed with an input state cached and a tracer installed.
C22_Witness ==
    /\ kind = "Bank"
    /\ ret.op = "poll"
    /\ poll.at = "select"
    /\ Len(io) = 1
    /\ io[1].req = "get"
    /\ io[1].err
    /\ bank.ins # {}
    /\ bank.tracer

\* C23: once the context is cancelled the poller eventually returns, and a
\* poller that has returned takes no further step: no tick, no refresh.
C23_PollerTerminates ==
    /\ (kind = "Bank" /\ poll.cancelled) ~> (poll.at = "done")
    /\ [][poll.at = "done" => (poll' = poll /\ ~Tick)]_vars

\* The poller has returned after the cancellation.
C23_Witness == kind = "Bank" /\ poll.cancelled /\ poll.at = "done"

\* C24: Close leaves the Bank without chip, input and output file and leaves
\* the poller as it is; the poller returns only after the cancellation; in its
\* select on a closed Bank a tick can always be taken; and a tick on a closed
\* Bank makes no ioctl, changes neither the Bank nor the chip, does not assign
\* insWhen and samples nothing.
C24_CloseKeepsPoller ==
    /\ [][ret'.op = "Close" =>
            /\ ~bank'.f
            /\ ~bank'.insF.open
            /\ ~bank'.outsF.open
            /\ poll' = poll]_vars
    /\ [][(Tick /\ ~bank.f) =>
            /\ io' = <<>>
            /\ trace' = <<>>
            /\ bank' = bank
            /\ hw' = hw
            /\ ~poll'.when]_vars
    /\ [](poll.at = "done" => poll.cancelled)
    /\ []((kind = "Bank" /\ ~bank.f /\ poll.at = "select") => ENABLED PollTick)

\* The poller has ticked on a closed Bank that still caches a high input and
\* has a tracer, the context not cancelled.
C24_Witness ==
    /\ kind = "Bank"
    /\ ~bank.f
    /\ ret.op = "poll"
    /\ ~poll.cancelled
    /\ bank.insMask # {}
    /\ bank.ins # {}
    /\ bank.tracer

\* The step is caller p's Enable or Output returning from enableRWLocked.
Reconfigures(p) ==
    \/ /\ Completes(p, "Enable", "enable")
       /\ call[p].idx \notin bank.insMask \cup bank.outsMask
    \/ /\ Completes(p, "Output", "output")
       /\ call[p].idx \notin (IF call[p].val THEN bank.outsMask ELSE bank.insMask)

\* C25: an Enable or Output whose reconfiguration fails returns the error and
\* leaves the masks as it changed them before the reconfiguration (Enable: the
\* line added to insMask; Output: the line added to the wanted mask and
\* toggled in the other); the same call made again as the next Enable or
\* Output then returns no error, makes no ioctl and changes nothing.
C25_NoRollback ==
    [][\A p \in Callers :
          LET i == call[p].idx
              toggled(mask) == IF i \in mask THEN mask \ {i} ELSE mask \cup {i}
          IN /\ (Reconfigures(p) /\ io' # <<>> /\ ret'.err) =>
                   /\ ret'.op = call[p].op
                   /\ call[p].op = "Enable" =>
                         /\ bank'.insMask = bank.insMask \cup {i}
                         /\ bank'.outsMask = bank.outsMask
                   /\ (call[p].op = "Output" /\ call[p].val) =>
                         /\ bank'.outsMask = bank.outsMask \cup {i}
                         /\ bank'.insMask = toggled(bank.insMask)
                   /\ (call[p].op = "Output" /\ ~call[p].val) =>
                         /\ bank'.insMask = bank.insMask \cup {i}
                         /\ bank'.outsMask = toggled(bank.outsMask)
             /\ (pc[p] \in {"enable", "output"} /\ pc'[p] = "idle"
                   /\ ghost.failed = [op |-> call[p].op, idx |-> i, val |-> call[p].val]) =>
                   /\ ~ret'.err
                   /\ io' = <<>>
                   /\ bank' = bank
                   /\ hw' = hw]_vars

\* Enable of a line failed on a fresh Bank, was made again and returned without
\* error or ioctl: the line is in insMask and the Bank has no input file.
C25_Witness ==
    /\ kind = "Bank"
    /\ ret.op = "Enable"
    /\ ~ret.err
    /\ io = <<>>
    /\ ghost.failed = None
    /\ bank.insMask = {ret.idx}
    /\ bank.outsMask = {}
    /\ ~bank.insF.open

\* C26: a Get(i) that passes the index check on a Flag whose mask lacks bit i
\* returns false without error, adds bit i to the mask and changes nothing
\* else, and the tracer, if any, gets exactly one sample of the new mask and
\* the unchanged value; a Get of a bit in the mask changes nothing and samples
\* nothing.
C26_FlagFirstReference ==
    [][\A p \in Callers : (kind = "Flag" /\ Completes(p, "Get", "get")) =>
          LET i == call[p].idx IN
          IF i \notin flag.mask
          THEN /\ ~ret'.err
               /\ ret'.val = FALSE
               /\ flag' = [flag EXCEPT !.mask = flag.mask \cup {i}]
               /\ trace' = (IF flag.tracer
                            THEN <<[mask |-> flag.mask \cup {i}, value |-> flag.value]>>
                            ELSE <<>>)
          ELSE /\ flag' = flag
               /\ trace' = <<>>]_vars

\* A first Get of bit 1 was sampled on a Flag whose bit 0 is set.
C26_Witness ==
    /\ kind = "Flag"
    /\ ret.op = "Get"
    /\ ~ret.err
    /\ ret.idx = 1
    /\ trace = <<[mask |-> {0, 1}, value |-> {0}]>>

\* C27: no step takes a bit out of the Flag's mask.
C27_FlagMaskMonotone == [][kind = "Flag" => flag.mask \subseteq flag'.mask]_vars

\* Both bits are in the mask, one by a write of true that a later write
\* cleared again, and a handle is open.
C27_Witness ==
    /\ kind = "Flag"
    /\ flag.mask = {0, 1}
    /\ flag.value = {}
    /\ \E i \in {0, 1} : Last(i).has /\ ~Last(i).val
    /\ \E p \in Callers : HandleOpen(p)

\* C28: the commit of a value received from a Flag handle samples the tracer,
\* if there is one, exactly once with the new mask and value when the value
\* word or the mask changed, and not at all when neither did; no other step of
\* a commit goroutine samples.
C28_FlagCommitSample ==
    [][kind = "Flag" =>
         /\ \A p \in Callers : Receives(p) =>
               trace' = (IF flag.tracer /\ (flag'.value # flag.value \/ flag'.mask # flag.mask)
                         THEN <<[mask |-> flag'.mask, value |-> flag'.value]>>
                         ELSE <<>>)
         /\ (trace' # <<>> /\ ret' = None) => \E p \in Callers : Receives(p)]_vars

\* With a tracer, a commit that only revealed its bit was sampled.
C28_Witness ==
    /\ kind = "Flag"
    /\ flag.tracer
    /\ \E p \in Callers : HandleWritten(p) /\ ~call[p].val /\ call[p].idx = 1
    /\ trace = <<[mask |-> {0, 1}, value |-> {0}]>>

\* C29 as stated: SetTracer with a tracer samples it exactly once, with mask
\* insMask|outsMask and value ins|outs, whatever the state of the Bank;
\* SetTracer(nil) samples nothing, and no step samples while no tracer is
\* installed.
C29_SetTracer ==
    [][kind = "Bank" =>
         /\ ret'.op = "SetTracer" =>
               trace' = (IF bank'.tracer
                         THEN <<[mask |-> bank.insMask \cup bank.outsMask,
                                 value |-> bank.ins \cup bank.outs]>>
                         ELSE <<>>)
         /\ trace' # <<>> => bank'.tracer]_vars

\* C29, amended: as stated for a Bank with at least one line in insMask or
\* outsMask; on a Bank with no such line SetTracer samples nothing.
C29_SetTracerIfLines ==
    [][kind = "Bank" =>
         /\ ret'.op = "SetTracer" =>
               /\ bank' = [bank EXCEPT !.tracer = bank'.tracer]
               /\ trace' = (IF bank'.tracer /\ (bank.insMask # {} \/ bank.outsMask # {})
                            THEN <<[mask |-> bank.insMask \cup bank.outsMask,
                                    value |-> bank.ins \cup bank.outs]>>
                            ELSE <<>>)
         /\ trace' # <<>> => bank'.tracer]_vars

\* SetTracer has installed a tracer on a Bank with no line enabled.
C29_Witness ==
    /\ kind = "Bank"
    /\ ret.op = "SetTracer"
    /\ bank.tracer
    /\ bank.insMask = {}
    /\ bank.outsMask = {}
    /\ trace = <<>>

\* C30: while a Bank handle is written and not yet closed, whatever the value
\* written, the Bank's mutex is held (by the commit goroutine), so that no
\* Get, commit, Enable, Output, SetTracer or poller refresh can run.
C30_WriteToCloseExclusive ==
    (kind = "Bank" /\ \E p \in Callers : HandleWritten(p)) => bank.mu

\* Caller p's call waits: in Get or SetHold for the mutex or the slot, or in
\* Set at any point up to its return.
Pending(p) == pc[p] \in {"get", "sethold"} \/ call[p].op = "Set"

\* What Pending(p) waits for: Get or Set has returned, SetHold has returned
\* its handle.
Served(p) == pc[p] = "idle" \/ (pc[p] = "held" /\ call[p].op = "SetHold")

\* The step is a caller other than p beginning a Set or SetHold.
Overtaken(p) ==
    \E q \in Callers \ {p} : pc[q] = "idle" /\ pc'[q] = "sethold"

\* C31 as stated: under fair scheduling, with every handle eventually closed,
\* every call waiting in Get, Set or SetHold returns, every open handle is
\* closed and every commit goroutine ends, and a bound hold slot is followed by
\* a state in which the slot is unbound and the mutex free.
C31_Progress ==
    /\ \A p \in Callers : Pending(p) ~> Served(p)
    /\ \A p \in Callers : HandleOpen(p) ~> ~HandleOpen(p)
    /\ \A c \in Chans : (gor[c].pc # "none") ~> (gor[c].pc = "none")
    /\ (Slot # Nil) ~> (Slot = Nil /\ ~Mu)

\* C31, amended: a bound slot is followed by a state with the slot unbound and
\* the mutex free, and a waiting Get returns; a waiting Set or SetHold
\* returns, an open handle is closed and the commit goroutines end unless other
\* callers begin a Set or SetHold again and again.
C31_ProgressUnlessOvertaken ==
    /\ (Slot # Nil) ~> (Slot = Nil /\ ~Mu)
    /\ \A p \in Callers : (pc[p] = "get") ~> (pc[p] = "idle")
    /\ \A p \in Callers :
          \/ []<><<Overtaken(p)>>_vars
          \/ /\ Pending(p) ~> Served(p)
             /\ HandleOpen(p) ~> ~HandleOpen(p)
             /\ (call[p].ch # Nil /\ gor[call[p].ch].pc # "none") ~> (call[p].ch = Nil)

\* A Set has returned while the other caller waits for the slot.
C31_Witness ==
    /\ ret.op = "Set"
    /\ ~ret.err
    /\ \E q \in Callers : q # ret.p /\ pc[q] \in {"sethold", "send"}

\* C32: every sample a Bank gives its tracer has mask = insMask | outsMask and
\* a value that shows, for every input line, its cached ins bit and, for every
\* output line, its cached outs bit, and no bit outside the mask.
C32_SampleOfEnabledLines ==
    kind = "Bank" =>
       \A n \in 1..Len(trace) :
          /\ trace[n].mask = bank.insMask \cup bank.outsMask
          /\ trace[n].value = (bank.ins \cap bank.insMask) \cup (bank.outs \cap bank.outsMask)

\* C33: an input refresh always terminates and releases the exclusive section:
\* the step of a Get or of a poller tick that takes the mutex and refreshes the
\* inputs ends with the call returned (the poller back at its select) and the
\* mutex unlocked, whatever lines are enabled as inputs.
C33_RefreshTerminates ==
    [][kind = "Bank" =>
         /\ \A p \in Callers : (pc[p] = "get" /\ pc'[p] # "get") =>
               (pc'[p] = "idle" /\ ret'.op = "Get" /\ ~bank'.mu)
         /\ (poll.at = "lock" /\ poll'.at # "lock") =>
               (poll'.at = "select" /\ ~bank'.mu)]_vars

\* C34: whenever Enable(i) returns success for a line index the bank accepts
\* (0 <= i < line count), line i is in insMask or outsMask afterwards, so that
\* a Get(i) that follows finds it enabled.
C34_EnabledAfterEnable ==
    [][(kind = "Bank" /\ ret'.op = "Enable" /\ ~ret'.err) =>
          /\ ret'.idx >= 0
          /\ ret'.idx < bank.lines
          /\ ret'.idx \in bank'.insMask \cup bank'.outsMask]_vars

\* C35: the value of a Flag is contained in its revealed mask in every state
\* (value & ~mask == 0: a bit is true only after it was revealed), and a hold on
\* bit i that is closed without a write does not reveal bit i: the commit
\* goroutine's step that finds the channel closed leaves the mask as it was.
C35_ValueWithinMask ==
    /\ [](kind = "Flag" => flag.value \subseteq flag.mask)
    /\ [][kind = "Flag" =>
            \A c \in Chans : ClosedUnwritten(c) => flag'.mask = flag.mask]_vars

\* A bit of the Flag is true, and the hold on another bit, which nothing has
\* revealed, was closed without a write.
C35_Witness ==
    /\ kind = "Flag"
    /\ flag.value # {}
    /\ \E c \in Chans : /\ gor[c].pc = "select"
                        /\ chs[c].st = "closed"
                        /\ Slot = c
                        /\ Bit(gor[c].index) \cap flag.mask = {}

====
